---- MODULE Spec2Model ----
(***************************************************************************)
(* A model of the plan lifecycle and progress-tracking engine of the       *)
(* health-chatbot backend: the plan store (database.py), the plan          *)
(* generator (plan_generator.py), the chat turn (routes/chat.py) and the   *)
(* plan/progress routes (routes/plans.py).                                 *)
(*                                                                         *)
(* Texts are TLA+ strings; the Python string operations the code uses      *)
(* (lower(), split(), "k in s", regular expressions) are computed          *)
(* character by character.  A plan's _id is its position in the sequence   *)
(* `plans`, which is the order of created_at.                              *)
(***************************************************************************)
EXTENDS Integers, Sequences, FiniteSets, TLC

VARIABLES
  plans,   \* the health_plans collection, in creation order
  last,    \* the request handled last and what it answered
  pc,      \* per worker: position inside a concurrent update_task_progress
  args,    \* per worker: the (plan_id, task_name, date) of its call
  loc,     \* per worker: the plan document read by find_one, as modified locally
  rets,    \* per worker: the value its call returned
  specialist_stats,  \* the specialist_stats collection, in insertion order
  now,     \* the calendar day of datetime.now(), as a position in Calendar
  mongodb_uri  \* os.getenv('MONGODB_URI') when the DatabaseManager was built, "" for None

vars == <<plans, last, pc, args, loc, rets, specialist_stats, now, mongodb_uri>>

(***************************************************************************)
(* Bounds of the model.                                                    *)
(***************************************************************************)
MaxPlans == 2

(***************************************************************************)
(* Python string operations.                                               *)
(***************************************************************************)
Upper == "ABCDEFGHIJKLMNOPQRSTUVWXYZ"
LowerAlpha == "abcdefghijklmnopqrstuvwxyz"
Digits == {"0", "1", "2", "3", "4", "5", "6", "7", "8", "9"}
Whitespace == {" ", "\t", "\n"}

\* s[i:i+1], positions from 1: "" outside the text
CharAt(s, i) == IF i \in 1..Len(s) THEN SubSeq(s, i, i) ELSE ""

LowerChar(c) ==
  IF \E i \in 1..26 : CharAt(Upper, i) = c
  THEN CharAt(LowerAlpha, CHOOSE i \in 1..26 : CharAt(Upper, i) = c)
  ELSE c

\* str.lower(): every character lower-cased, the two halves of the text in turn
RECURSIVE Lower(_)
Lower(s) ==
  IF Len(s) <= 1 THEN LowerChar(s)
  ELSE Lower(SubSeq(s, 1, Len(s) \div 2)) \o Lower(SubSeq(s, Len(s) \div 2 + 1, Len(s)))

\* k starts at position i of s
StartsAt(s, i, k) == i >= 1 /\ i + Len(k) - 1 <= Len(s) /\ SubSeq(s, i, i + Len(k) - 1) = k

\* Python's "k in s" for strings
Contains(s, k) == \E i \in 1..(Len(s) - Len(k) + 1) : StartsAt(s, i, k)

\* the first position >= i of s whose character is in cs, Len(s) + 1 if none
NextPos(s, i, cs) ==
  IF i > Len(s) THEN i
  ELSE CHOOSE p \in i..(Len(s) + 1) :
         /\ p > Len(s) \/ CharAt(s, p) \in cs
         /\ \A q \in i..(p - 1) : CharAt(s, q) \notin cs

\* the first position >= i of s whose character is not in cs, Len(s) + 1 if none
SkipChars(s, i, cs) ==
  IF i > Len(s) THEN i
  ELSE CHOOSE p \in i..(Len(s) + 1) :
         /\ p > Len(s) \/ CharAt(s, p) \notin cs
         /\ \A q \in i..(p - 1) : CharAt(s, q) \in cs

\* where the words of s start: a character that is not whitespace, at the
\* start of the text or after whitespace
WordStarts(s) ==
  {j \in 1..Len(s) : CharAt(s, j) \notin Whitespace /\ (j = 1 \/ CharAt(s, j - 1) \in Whitespace)}

\* the words of s that start at the positions starts, left to right
WordsAt(s, starts) ==
  [n \in 1..Cardinality(starts) |->
     LET j == CHOOSE x \in starts : Cardinality({y \in starts : y <= x}) = n
     IN SubSeq(s, j, NextPos(s, j, Whitespace) - 1)]

\* str.split(): the maximal runs of non-whitespace characters
Split(s) == WordsAt(s, WordStarts(s))

\* [word for word in s.split() if len(word) > 3]
LongWords(s) == SelectSeq(Split(s), LAMBDA w : Len(w) > 3)

\* any(k in s for k in ks), ks a sequence
AnyIn(ks, s) == \E i \in 1..Len(ks) : Contains(s, ks[i])

\* ' '.join(s.split())
RECURSIVE Join(_)
Join(ws) ==
  IF ws = <<>> THEN ""
  ELSE IF Len(ws) = 1 THEN ws[1] ELSE ws[1] \o " " \o Join(Tail(ws))

\* s.strip() for the whitespace the model knows
RECURSIVE LStrip(_)
LStrip(s) ==
  IF s # "" /\ CharAt(s, 1) \in Whitespace THEN LStrip(SubSeq(s, 2, Len(s))) ELSE s
RECURSIVE RStrip(_)
RStrip(s) ==
  IF s # "" /\ CharAt(s, Len(s)) \in Whitespace THEN RStrip(SubSeq(s, 1, Len(s) - 1)) ELSE s
Strip(s) == RStrip(LStrip(s))

Min(a, b) == IF a <= b THEN a ELSE b

Range(f) == {f[i] : i \in DOMAIN f}

(***************************************************************************)
(* The plan store: DatabaseManager in database.py.                         *)
(***************************************************************************)
\* the ceiling of timeline_days
MaxTimelineDays == 7

\* datetime.now().strftime("%Y-%m-%d") of the requests, and one earlier day
Today == "2024-01-02"
Dates == {"2024-01-01", Today}

\* create_health_plan: every task starts with an empty progress list; the
\* timeline is min(timeline_days, 7); the new document is active.
create_health_plan(ps, plan_name, condition, timeline_days, tasks) ==
  LET plan == [plan_name |-> plan_name,
               condition |-> condition,
               timeline_days |-> Min(timeline_days, MaxTimelineDays),
               tasks |-> [i \in 1..Len(tasks) |-> [task_name |-> tasks[i], progress |-> <<>>]],
               active |-> TRUE]
  IN [plans |-> Append(ps, plan), id |-> Len(ps) + 1]

\* a faulty variant of ActiveIdsFrom: the filter {"active": True} is missing
RECURSIVE AllIdsFrom(_, _)
AllIdsFrom(ps, i) ==
  IF i = 0 THEN <<>> ELSE <<i>> \o AllIdsFrom(ps, i - 1)

\* the ids of the active plans, newest first: find({active: True}, sort created_at -1)
RECURSIVE ActiveIdsFrom(_, _)
ActiveIdsFrom(ps, i) ==
  IF i = 0 THEN <<>>
  ELSE (IF ps[i].active THEN <<i>> ELSE <<>>) \o ActiveIdsFrom(ps, i - 1)

\* get_active_plans: the active plans as dictionaries with "id", newest first
get_active_plans(ps) ==
  LET ids == ActiveIdsFrom(ps, Len(ps))
  IN [k \in 1..Len(ids) |->
        [id |-> ids[k],
         plan_name |-> ps[ids[k]].plan_name,
         condition |-> ps[ids[k]].condition,
         timeline_days |-> ps[ids[k]].timeline_days,
         tasks |-> ps[ids[k]].tasks]]

\* a faulty variant of mark_in_tasks: the date is appended without the test
\* "if date not in task['progress']"
mark_in_tasks_unguarded(tasks, task_name, date) ==
  IF \E i \in 1..Len(tasks) : tasks[i].task_name = task_name
  THEN LET i == CHOOSE j \in 1..Len(tasks) :
                  /\ tasks[j].task_name = task_name
                  /\ \A k \in 1..(j - 1) : tasks[k].task_name # task_name
       IN [tasks EXCEPT ![i].progress = Append(@, date)]
  ELSE tasks

\* the loop of update_task_progress over plan["tasks"]: the first task of that
\* name gets the date appended unless it is there already; then break
mark_in_tasks(tasks, task_name, date) ==
  IF \E i \in 1..Len(tasks) : tasks[i].task_name = task_name
  THEN LET i == CHOOSE j \in 1..Len(tasks) :
                  /\ tasks[j].task_name = task_name
                  /\ \A k \in 1..(j - 1) : tasks[k].task_name # task_name
       IN IF date \in Range(tasks[i].progress)
          THEN tasks
          ELSE [tasks EXCEPT ![i].progress = Append(@, date)]
  ELSE tasks

\* find_one({"_id": plan_id}): whether the document exists
plan_exists(ps, plan_id) == plan_id \in 1..Len(ps)

\* a faulty variant of write_back: the date is pushed onto the stored list of
\* the task (a $push) instead of the array being replaced by the caller's copy
write_back_push(ps, plan_id, task_name, date, tasks) ==
  [ps EXCEPT ![plan_id].tasks =
     [i \in 1..Len(@) |->
        IF @[i].task_name = task_name
        THEN [@[i] EXCEPT !.progress = Append(@, date)]
        ELSE @[i]]]

\* update_one({"_id": plan_id}, {"$set": {"tasks": plan["tasks"], "updated_at": now}}):
\* the whole tasks array of the document is replaced by the caller's copy
write_back(ps, plan_id, task_name, date, tasks) == [ps EXCEPT ![plan_id].tasks = tasks]

\* update_task_progress: False when the plan is not found; otherwise the tasks
\* are written back and the answer is True
update_task_progress(ps, plan_id, task_name, date) ==
  IF ~plan_exists(ps, plan_id)
  THEN [plans |-> ps, ret |-> FALSE]
  ELSE [plans |-> write_back(ps, plan_id, task_name, date,
                             mark_in_tasks(ps[plan_id].tasks, task_name, date)),
        ret |-> TRUE]

\* update_task_progress on a store that can fail: without the collection
\* (lines 282-283) and when a store call raises (lines 310-312) the answer is
\* False
update_task_progress_call(ps, plan_id, task_name, date, store_ok) ==
  IF store_ok THEN update_task_progress(ps, plan_id, task_name, date)
  ELSE [plans |-> ps, ret |-> FALSE]

\* a faulty variant of deactivate_plan: the document is replaced by a fresh
\* inactive one, so that the dates recorded for its tasks are gone
deactivate_plan_resetting(ps, plan_id) ==
  IF ~plan_exists(ps, plan_id)
  THEN [plans |-> ps, ret |-> FALSE]
  ELSE [plans |-> [ps EXCEPT ![plan_id].active = FALSE,
                             ![plan_id].tasks = [t \in 1..Len(@) |-> [@[t] EXCEPT !.progress = <<>>]]],
        ret |-> TRUE]

\* deactivate_plan: $set active False and updated_at now on the matching
\* document; modified_count > 0 exactly when the document exists, since
\* updated_at changes on every call
deactivate_plan(ps, plan_id) ==
  IF ~plan_exists(ps, plan_id)
  THEN [plans |-> ps, ret |-> FALSE]
  ELSE [plans |-> [ps EXCEPT ![plan_id].active = FALSE], ret |-> TRUE]

(***************************************************************************)
(* The plan generator: HealthPlanAgent in plan_generator.py.               *)
(***************************************************************************)
\* dict.get(key, default)
Get(d, key, default) == IF key \in DOMAIN d THEN d[key] ELSE default

\* Day\s*(\d+) at position i of s (IGNORECASE): where the digits start and
\* the position after them; ok is FALSE when it does not match
DayHead(s, i) ==
  LET j == SkipChars(s, i + 3, Whitespace)
      k == SkipChars(s, j, Digits)
  IN [ok |-> i + 2 <= Len(s) /\ Lower(SubSeq(s, i, i + 2)) = "day" /\ k > j,
      num |-> j, end |-> k]

\* no match of day_pattern at position i
DayNoMatch(i) == [ok |-> FALSE, day_num |-> "", content |-> "", end |-> i]

\* the position after the optional group (?:\.[^D]*(?=Day\s*\d+|$))? when
\* [^.]+ stops at m and the first d or D after the full stop is at q
DayGroupEnd(s, m, q) ==
  LET line_ends == {p \in (m + 1)..(q - 1) : CharAt(s, p) = "\n"}
  IN IF m > Len(s) THEN m
     ELSE IF q > Len(s) \/ DayHead(s, q).ok THEN q
     ELSE IF line_ends # {} THEN CHOOSE p \in line_ends : \A p2 \in line_ends : p2 <= p
     ELSE m

\* the match whose description runs from start to end - 1
DayResult(s, h, start, end) ==
  [ok |-> TRUE, day_num |-> SubSeq(s, h.num, h.end - 1),
   content |-> SubSeq(s, start, end - 1), end |-> end]

\* [^.]+ from start stops at m, the first full stop or the end of the text
DayTail(s, h, start, m) ==
  DayResult(s, h, start, DayGroupEnd(s, m, NextPos(s, m + 1, {"d", "D"})))

\* the description starts at start
DayText(s, h, start) == DayTail(s, h, start, NextPos(s, start + 1, {"."}))

\* after "Day N" (h) and the colon: a is the position after the colon and b
\* the first position after the whitespace that follows it
DayBlank(s, i, h, a, b) ==
  IF b <= Len(s) /\ CharAt(s, b) # "." THEN DayText(s, h, b)
  ELSE IF b > a THEN DayText(s, h, b - 1)
  ELSE DayNoMatch(i)

DayColon(s, i, h) ==
  IF h.ok /\ CharAt(s, h.end) = ":"
  THEN DayBlank(s, i, h, h.end + 1, SkipChars(s, h.end + 1, Whitespace))
  ELSE DayNoMatch(i)

\* day_pattern at position i of s:
\*   Day\s*(\d+):\s*([^.]+(?:\.[^D]*(?=Day\s*\d+|$))?)
\* under IGNORECASE | MULTILINE | DOTALL.  \s* before the description gives
\* one whitespace character back when nothing else can start [^.]+; the
\* optional group ends at the longest run of non-d characters after the full
\* stop that is followed by a day marker, the end of the text or (MULTILINE)
\* a line end.
DayMatchAt(s, i) == DayColon(s, i, DayHead(s, i))

\* re.findall(day_pattern, s): the matches left to right, not overlapping; a
\* match starts with d or D, so the scan goes on at the next such character
RECURSIVE DayMatchesFrom(_, _)
DayMatchesNext(s, i, mt) ==
  IF mt.ok
  THEN <<[day_num |-> mt.day_num, content |-> mt.content]>> \o DayMatchesFrom(s, mt.end)
  ELSE DayMatchesFrom(s, NextPos(s, i + 1, {"d", "D"}))

DayMatchesFrom(s, i) ==
  IF i > Len(s) THEN <<>> ELSE DayMatchesNext(s, i, DayMatchAt(s, i))

day_pattern_findall(s) == DayMatchesFrom(s, 1)

\* back\s*pain|neck\s*pain|stress|anxiety|injury|muscle|joint at position i
\* of the lower-cased text: the text matched, "" when none matches
ConditionAt(ls, i) ==
  LET two(first) ==
        LET j == SkipChars(ls, i + 4, Whitespace)
        IN IF StartsAt(ls, i, first) /\ StartsAt(ls, j, "pain")
           THEN SubSeq(ls, i, j + 3) ELSE ""
      one == <<"stress", "anxiety", "injury", "muscle", "joint">>
  IN IF two("back") # "" THEN two("back")
     ELSE IF two("neck") # "" THEN two("neck")
     ELSE IF \E n \in 1..Len(one) : StartsAt(ls, i, one[n])
          THEN one[CHOOSE n \in 1..Len(one) : StartsAt(ls, i, one[n])]
          ELSE ""

\* re.search of the condition pattern in ai_response.lower(); the default
\* label when nothing matches
guess_condition(ai_response) ==
  LET ls == Lower(ai_response)
      hits == {i \in 1..Len(ls) : ConditionAt(ls, i) # ""}
  IN IF hits = {} THEN "health condition"
     ELSE ConditionAt(ls, CHOOSE i \in hits : \A j \in hits : i <= j)

TitleWords == <<"plan", "management", "program">>

\* [^:]+(?:Plan|Management|Program) from position i of s (IGNORECASE): the
\* position after the match, 0 when it does not match.  [^:]+ is greedy, so
\* the last keyword of the colon-free run that starts after i is taken.
TitleTailEnd(s, i) ==
  LET r == NextPos(s, i, {":"})
      ls == Lower(s)
      es == {e \in (i + 1)..(r - 1) : \E n \in 1..Len(TitleWords) : StartsAt(ls, e, TitleWords[n])}
  IN IF es = {} THEN 0
     ELSE LET e == CHOOSE x \in es : \A y \in es : y <= x
              n == CHOOSE x \in 1..Len(TitleWords) : StartsAt(ls, e, TitleWords[x])
          IN e + Len(TitleWords[n])

\* (\d+)-Day\s+([^:]+(?:Plan|Management|Program)) at position i: \s+ keeps
\* all the whitespace unless the keyword follows it at once, and then gives
\* one character back to [^:]+
Title1At(s, i) ==
  LET k == SkipChars(s, i, Digits)
      w == SkipChars(s, k + 4, Whitespace)
      e1 == TitleTailEnd(s, w)
      e2 == IF w - 1 >= k + 5 THEN TitleTailEnd(s, w - 1) ELSE 0
      head == k > i /\ StartsAt(Lower(s), k, "-day") /\ w > k + 4
  IN IF head /\ e1 > 0
     THEN [ok |-> TRUE, name |-> SubSeq(s, i, k - 1) \o "-Day " \o SubSeq(s, w, e1 - 1)]
     ELSE IF head /\ e2 > 0
     THEN [ok |-> TRUE, name |-> SubSeq(s, i, k - 1) \o "-Day " \o SubSeq(s, w - 1, e2 - 1)]
     ELSE [ok |-> FALSE, name |-> ""]

\* ([^:]+(?:Plan|Management|Program)) at position i
Title2At(s, i) ==
  LET e == TitleTailEnd(s, i)
  IN IF e > 0 THEN [ok |-> TRUE, name |-> SubSeq(s, i, e - 1)]
     ELSE [ok |-> FALSE, name |-> ""]

\* the title loop: the first of the two patterns that re.search finds
guess_plan_name(ai_response) ==
  LET h1 == {i \in 1..Len(ai_response) : Title1At(ai_response, i).ok}
      h2 == {i \in 1..Len(ai_response) : Title2At(ai_response, i).ok}
  IN IF h1 # {} THEN Title1At(ai_response, CHOOSE i \in h1 : \A j \in h1 : i <= j).name
     ELSE IF h2 # {} THEN Title2At(ai_response, CHOOSE i \in h2 : \A j \in h2 : i <= j).name
     ELSE "Health Management Plan"

\* the longest task description kept, and the length a longer one is cut to
MaxTaskLen == 200
CutTaskLen == 197

\* the task name of one match: strip, collapse whitespace, truncate, prefix
day_task_name(mt) ==
  LET clean == Join(Split(Strip(mt.content)))
      short == IF Len(clean) > MaxTaskLen THEN SubSeq(clean, 1, CutTaskLen) \o "..." ELSE clean
  IN "Day " \o mt.day_num \o ": " \o short

\* a faulty variant of plan_of_matches: the tasks of the matches after the
\* seventh are dropped
plan_of_matches_first_seven(ai_response, matches) ==
  IF matches = <<>>
  THEN [has_plan |-> FALSE, plan_data |-> [error |-> "No daily tasks found in response"]]
  ELSE [has_plan |-> TRUE,
        plan_data |-> [needs_plan |-> TRUE,
                       condition |-> guess_condition(ai_response),
                       plan_name |-> guess_plan_name(ai_response),
                       timeline_days |-> Min(Len(matches), MaxTimelineDays),
                       tasks |-> [n \in 1..Min(Len(matches), MaxTimelineDays) |->
                                    day_task_name(matches[n])]]]

\* lines 90-142: what the extractor answers when re.findall gave matches
plan_of_matches(ai_response, matches) ==
  IF matches = <<>>
  THEN [has_plan |-> FALSE, plan_data |-> [error |-> "No daily tasks found in response"]]
  ELSE [has_plan |-> TRUE,
        plan_data |-> [needs_plan |-> TRUE,
                       condition |-> guess_condition(ai_response),
                       plan_name |-> guess_plan_name(ai_response),
                       timeline_days |-> Min(Len(matches), MaxTimelineDays),
                       tasks |-> [n \in 1..Len(matches) |-> day_task_name(matches[n])]]]

\* extract_daily_tasks_from_response: (has_plan, plan_data)
extract_daily_tasks_from_response(ai_response) ==
  plan_of_matches(ai_response, day_pattern_findall(ai_response))

(***************************************************************************)
(* The keyword lists of the code.                                          *)
(***************************************************************************)
\* plan_generator.py
HEALTH_CONDITION_KEYWORDS ==
  <<"back pain", "neck pain", "shoulder pain", "knee pain", "hip pain", "joint pain",
    "headache", "migraine", "muscle pain", "chronic pain", "sciatica",
    "pain", "ache", "aching", "hurt", "hurts", "hurting", "sore", "soreness",
    "stiff", "stiffness", "mobility", "flexibility", "range of motion", "posture",
    "injured", "injury", "sprain", "strain", "pulled muscle", "tight muscles",
    "stress", "stressed", "anxiety", "anxious", "depression", "depressed",
    "overwhelmed", "burnout", "sleep problems", "insomnia", "tired", "fatigue",
    "mental health", "mood", "irritable", "restless",
    "fitness goals", "weight loss", "strength training", "cardio",
    "recovery", "rehabilitation", "physical therapy", "exercise",
    "workout", "training", "fitness",
    "diabetes", "hypertension", "high blood pressure", "cholesterol",
    "arthritis", "fibromyalgia", "chronic fatigue", "chronic condition",
    "dizzy", "nausea", "weakness", "swollen", "inflammation",
    "breathing problems", "chest pain", "irregular heartbeat">>

progress_keywords == <<"mark", "progress", "completed", "finished", "done", "update", "track">>

\* routes/chat.py
deactivation_keywords ==
  <<"deactivate", "stop", "quit", "cancel", "inactive", "don't want", "no longer", "end">>

\* a faulty variant of marking_keywords: a word that is no progress keyword
\* ("hurt") has slipped into the list
marking_keywords_with_hurt == <<"mark", "completed", "finished", "done", "progress", "hurt">>

\* the keywords that make the turn mark progress after the response
marking_keywords == <<"mark", "completed", "finished", "done", "progress">>

\* the two symbols of the list stand for the check marks U+2705 and U+2713
progress_indicators ==
  <<"done", "completed", "finished", "did", "yes", "U+2705", "U+2713", "all", "everything">>

\* None, as specific_plan_condition
NoCondition == ""

(***************************************************************************)
(* The inputs of the requests.                                             *)
(***************************************************************************)
\* request.message of POST /chat
ChatMessages ==
  {"my back pain hurts",
   "I feel stressed",
   "STOP the stress plan",
   "cancel back pain, all done",
   "all done, no pain today",
   "hello"}

\* what the plan analysis call can answer (analyze_for_plan_generation):
\* the JSON document of the model's reply, or an error
PlanAnalyses ==
  {[needs_plan |-> FALSE, plan_data |-> [error |-> "No JSON found in response"]],
   [needs_plan |-> TRUE,
    plan_data |-> [needs_plan |-> TRUE, condition |-> "lower back pain",
                   plan_name |-> "Back Care Plan", timeline_days |-> 9,
                   tasks |-> <<"Walking daily", "Stretch">>]],
   [needs_plan |-> TRUE,
    plan_data |-> [needs_plan |-> TRUE, condition |-> "stress",
                   plan_name |-> "Calm", timeline_days |-> 0,
                   tasks |-> <<"Rest">>]],
   [needs_plan |-> TRUE,
    plan_data |-> [needs_plan |-> TRUE, condition |-> "sleep"]]}

\* what the specialist can answer: a text, or the call raises
AiResponses ==
  {"Take care and rest well.",
   "Day 1: Walk. Day 1: Walk."}

AiOutcomes ==
  {[ok |-> TRUE, text |-> t] : t \in AiResponses} \cup {[ok |-> FALSE, text |-> ""]}

\* request.message of POST /progress/daily-report
ReportMessages ==
  {"mark all back pain",
   "all tasks of my health plan",
   "yes done",
   "did walk",
   "did nothing"}

\* request.specific_plan_condition
ReportConditions == {NoCondition, "back pain"}

\* request.task_name of POST /plans/{plan_id}/progress
TaskNames == {"Walking daily", "Stretch", "Rest", "Day 1: Walk.", "Swim"}

(***************************************************************************)
(* The texts the model meets, and the string operations on them computed   *)
(* once: lower(), the words longer than 3 characters, and "k in s".        *)
(***************************************************************************)
\* extract_daily_tasks_from_response of every specialist answer
Extracted == [t \in AiResponses |-> extract_daily_tasks_from_response(t)]

\* the labels the code falls back to when a plan carries none
DefaultTexts == {"health condition", "Health Management Plan", "General Health", "Health Plan"}

\* the texts of the plan_data documents in datas
PlanTexts(datas) ==
  UNION {{Get(d, "condition", "General Health"), Get(d, "plan_name", "Health Plan")}
         \cup Range(Get(d, "tasks", <<>>)) : d \in datas}

KnownTexts ==
  ChatMessages \cup ReportMessages \cup ReportConditions \cup TaskNames \cup DefaultTexts
  \cup PlanTexts({a.plan_data : a \in PlanAnalyses})

LowerMemo == [s \in KnownTexts |-> Lower(s)]

LoweredTexts == Range(LowerMemo) \cup KnownTexts

LongWordsMemo == [s \in LoweredTexts |-> LongWords(s)]

\* what the code looks for in a text: the long words of the texts, and the
\* keywords
Needles ==
  UNION {Range(LongWordsMemo[s]) : s \in LoweredTexts}
  \cup Range(HEALTH_CONDITION_KEYWORDS) \cup Range(progress_keywords)
  \cup Range(deactivation_keywords) \cup Range(marking_keywords)
  \cup Range(progress_indicators) \cup {"back pain", "mark all", "all tasks"}

ContainsMemo == [s \in LoweredTexts |-> {k \in Needles : Contains(s, k)}]

\* str.lower()
lower(s) == IF s \in KnownTexts THEN LowerMemo[s] ELSE Lower(s)

\* [word for word in s.split() if len(word) > 3]
long_words(s) == IF s \in LoweredTexts THEN LongWordsMemo[s] ELSE LongWords(s)

\* k in s
contains(s, k) ==
  IF s \in LoweredTexts /\ k \in Needles THEN k \in ContainsMemo[s] ELSE Contains(s, k)

\* any(k in s for k in ks)
any_in(ks, s) == \E i \in 1..Len(ks) : contains(s, ks[i])

\* None, as a plan id
NoPlan == 0

\* the default of plan_data.get("timeline_days", 7)
DefaultTimelineDays == 7

\* create_and_store_plan: None unless needs_plan is set and there are tasks
create_and_store_plan(ps, plan_data) ==
  LET tasks == Get(plan_data, "tasks", <<>>)
  IN IF ~Get(plan_data, "needs_plan", FALSE) \/ tasks = <<>>
     THEN [plans |-> ps, id |-> NoPlan]
     ELSE create_health_plan(ps,
                             Get(plan_data, "plan_name", "Health Plan"),
                             Get(plan_data, "condition", "General Health"),
                             Min(Get(plan_data, "timeline_days", DefaultTimelineDays), MaxTimelineDays),
                             tasks)

\* "for plan in plans: if <test>: target = plan; break": the first plan of the
\* sequence ps_view whose test holds (hits[k]), NoPlan if none
FirstPlan(ps_view, hits) ==
  IF \E k \in 1..Len(ps_view) : hits[k]
  THEN ps_view[CHOOSE k \in 1..Len(ps_view) :
                 hits[k] /\ \A j \in 1..(k - 1) : ~hits[j]].id
  ELSE NoPlan

\* "the condition is similar": a word longer than 3 characters of the
\* plan's condition occurs in the text
similar_condition(plan, text) == any_in(long_words(lower(plan.condition)), text)

\* process_message_for_plan; analysis is what analyze_for_plan_generation
\* answers, (needs_plan, plan_data)
process_message_for_plan(ps, user_message, analysis) ==
  LET view == get_active_plans(ps)
      existing == FirstPlan(view, [k \in DOMAIN view |->
                                     similar_condition(view[k], lower(user_message))])
      stored == create_and_store_plan(ps, analysis.plan_data)
  IN IF any_in(progress_keywords, lower(user_message))
     THEN [plans |-> ps, plan_created |-> FALSE, plan_id |-> NoPlan,
           plan_data |-> [progress_request |-> TRUE], existing |-> NoPlan]
     ELSE IF existing # NoPlan
     THEN [plans |-> ps, plan_created |-> FALSE, plan_id |-> existing,
           plan_data |-> [existing_plan |-> TRUE, plan_name |-> ps[existing].plan_name],
           existing |-> existing]
     ELSE IF analysis.needs_plan /\ "error" \notin DOMAIN analysis.plan_data
     THEN [plans |-> stored.plans, plan_created |-> TRUE, plan_id |-> stored.id,
           plan_data |-> analysis.plan_data, existing |-> NoPlan]
     ELSE [plans |-> ps, plan_created |-> FALSE, plan_id |-> NoPlan,
           plan_data |-> analysis.plan_data, existing |-> NoPlan]

\* lines 250-265 of process_ai_response_for_plan: ex is what the extractor
\* answers, (has_plan, plan_data)
store_extracted_plan(ps, ex) ==
  LET condition == lower(Get(ex.plan_data, "condition", ""))
      view == get_active_plans(ps)
      existing == FirstPlan(view, [k \in DOMAIN view |-> similar_condition(view[k], condition)])
      stored == create_and_store_plan(ps, ex.plan_data)
  IN IF ex.has_plan /\ "error" \notin DOMAIN ex.plan_data
     THEN IF existing # NoPlan
          THEN [plans |-> ps, plan_created |-> FALSE, plan_id |-> existing,
                plan_data |-> [existing_plan |-> TRUE, plan_name |-> ps[existing].plan_name],
                existing |-> existing]
          ELSE [plans |-> stored.plans, plan_created |-> TRUE, plan_id |-> stored.id,
                plan_data |-> ex.plan_data, existing |-> NoPlan]
     ELSE [plans |-> ps, plan_created |-> FALSE, plan_id |-> NoPlan,
           plan_data |-> ex.plan_data, existing |-> NoPlan]

\* process_ai_response_for_plan
process_ai_response_for_plan(ps, ai_response) ==
  store_extracted_plan(ps, IF ai_response \in AiResponses THEN Extracted[ai_response]
                           ELSE extract_daily_tasks_from_response(ai_response))

has_health_condition_keywords(text) == any_in(HEALTH_CONDITION_KEYWORDS, lower(text))

(***************************************************************************)
(* Marking loops shared by the chat turn and the daily report.             *)
(***************************************************************************)
\* for task in target_plan["tasks"]: if today not in task["progress"]:
\*   success = update_task_progress(...); if success: updated.append(name)
\* tasks is the list read before the loop; the store changes call by call.
\* calls is the list of the update_task_progress calls made so far, and
\* failing the set of the positions in it of the calls the store fails.
NoFailure == {}

store_call(plan_id, task_name, ret) == [plan_id |-> plan_id, task_name |-> task_name, ret |-> ret]

\* the loop that stops at the first call that answers False
RECURSIVE mark_pending_tasks_until_failure(_, _, _, _, _, _)
mark_pending_tasks_until_failure(ps, plan_id, tasks, updated, calls, failing) ==
  IF tasks = <<>> THEN [plans |-> ps, updated |-> updated, calls |-> calls]
  ELSE LET task == Head(tasks)
           u == update_task_progress_call(ps, plan_id, task.task_name, Today,
                                          (Len(calls) + 1) \notin failing)
       IN IF Today \in Range(task.progress)
          THEN mark_pending_tasks_until_failure(ps, plan_id, Tail(tasks), updated, calls, failing)
          ELSE IF ~u.ret
               THEN [plans |-> ps, updated |-> updated,
                     calls |-> Append(calls, store_call(plan_id, task.task_name, FALSE))]
               ELSE mark_pending_tasks_until_failure(
                      u.plans, plan_id, Tail(tasks), Append(updated, task.task_name),
                      Append(calls, store_call(plan_id, task.task_name, TRUE)), failing)

RECURSIVE mark_pending_tasks(_, _, _, _, _, _)
mark_pending_tasks(ps, plan_id, tasks, updated, calls, failing) ==
  IF tasks = <<>> THEN [plans |-> ps, updated |-> updated, calls |-> calls]
  ELSE LET task == Head(tasks)
           u == update_task_progress_call(ps, plan_id, task.task_name, Today,
                                          (Len(calls) + 1) \notin failing)
       IN IF Today \in Range(task.progress)
          THEN mark_pending_tasks(ps, plan_id, Tail(tasks), updated, calls, failing)
          ELSE mark_pending_tasks(u.plans, plan_id, Tail(tasks),
                                  IF u.ret THEN Append(updated, task.task_name) ELSE updated,
                                  Append(calls, store_call(plan_id, task.task_name, u.ret)),
                                  failing)

(***************************************************************************)
(* The chat turn: chat in routes/chat.py.                                  *)
(***************************************************************************)
\* lines 105-116: a significant word of the plan's condition or name occurs
\* in the message
plan_mentioned(plan, message_lower) ==
  any_in(long_words(lower(plan.condition)) \o long_words(lower(plan.plan_name)), message_lower)

\* a faulty variant of chat_deactivate: the plans are tried oldest first
chat_deactivate_oldest_first(ps, message) ==
  LET newest_first == get_active_plans(ps)
      view == [k \in 1..Len(newest_first) |-> newest_first[Len(newest_first) + 1 - k]]
      target == FirstPlan(view, [k \in DOMAIN view |-> plan_mentioned(view[k], lower(message))])
      d == deactivate_plan(ps, target)
  IN IF target = NoPlan
     THEN [plans |-> ps, target |-> NoPlan, plan_deactivated |-> FALSE]
     ELSE [plans |-> d.plans, target |-> target, plan_deactivated |-> d.ret]

\* lines 98-127: the deactivation branch
chat_deactivate(ps, message) ==
  LET view == get_active_plans(ps)
      target == FirstPlan(view, [k \in DOMAIN view |-> plan_mentioned(view[k], lower(message))])
      d == deactivate_plan(ps, target)
  IN IF target = NoPlan
     THEN [plans |-> ps, target |-> NoPlan, plan_deactivated |-> FALSE]
     ELSE [plans |-> d.plans, target |-> target, plan_deactivated |-> d.ret]

\* a faulty variant of chat_branch: the progress keywords are tested before
\* the deactivation keywords
chat_branch_progress_first(message) ==
  IF any_in(progress_keywords, lower(message)) THEN "progress"
  ELSE IF any_in(deactivation_keywords, lower(message)) THEN "deactivate"
  ELSE IF has_health_condition_keywords(message) THEN "plan"
  ELSE "none"

\* lines 98-139: which of the three branches the message takes
chat_branch(message) ==
  IF any_in(deactivation_keywords, lower(message)) THEN "deactivate"
  ELSE IF any_in(progress_keywords, lower(message)) THEN "progress"
  ELSE IF has_health_condition_keywords(message) THEN "plan"
  ELSE "none"

\* chat_branch of the messages of the model, computed once
BranchMemo == [m \in ChatMessages |-> chat_branch(m)]

branch_of(message) ==
  IF message \in ChatMessages THEN BranchMemo[message] ELSE chat_branch(message)

\* any(keyword in message_lower for keyword in marking_keywords), computed once
MarkingMemo == [m \in ChatMessages |-> any_in(marking_keywords, lower(m))]

asks_marking(message) ==
  IF message \in ChatMessages THEN MarkingMemo[message]
  ELSE any_in(marking_keywords, lower(message))

\* lines 209-214: the plan whose tasks the turn marks
chat_mark_target(ps, message) ==
  LET view == get_active_plans(ps)
  IN FirstPlan(view, [k \in DOMAIN view |->
                        \/ contains(lower(view[k].condition), "back pain")
                        \/ contains(lower(message), "back pain")])

\* lines 197-225: progress marking after the response
chat_mark_progress(ps, message, failing) ==
  LET target == chat_mark_target(ps, message)
      done == mark_pending_tasks(ps, target, ps[target].tasks, <<>>, <<>>, failing)
  IN IF ~asks_marking(message) \/ target = NoPlan
     THEN [plans |-> ps, target |-> NoPlan, updated |-> <<>>, calls |-> <<>>,
           attempted |-> asks_marking(message)]
     ELSE [plans |-> done.plans, target |-> target, updated |-> done.updated,
           calls |-> done.calls, attempted |-> TRUE]

\* nothing found by a plan processor
NoPlanResult(ps) ==
  [plans |-> ps, plan_created |-> FALSE, plan_id |-> NoPlan,
   plan_data |-> [none |-> TRUE], existing |-> NoPlan]

\* nothing deactivated, nothing marked
NoDeactivation(ps) == [plans |-> ps, target |-> NoPlan, plan_deactivated |-> FALSE]
NoMarking(ps) ==
  [plans |-> ps, target |-> NoPlan, updated |-> <<>>, calls |-> <<>>, attempted |-> FALSE]

\* lines 264-275: the ChatResponse, from what the steps of the turn did
chat_response(ai, branch, deact, from_msg, from_ai, marked) ==
  [plans |-> marked.plans,
   branch |-> branch,
   deact_target |-> deact.target,
   plan_deactivated |-> deact.plan_deactivated,
   msg_plan_called |-> branch = "plan",
   msg_plan_created |-> from_msg.plan_created,
   ai_plan_created |-> from_ai.plan_created,
   plan_created |-> from_msg.plan_created \/ from_ai.plan_created,
   plan_id |-> IF from_ai.plan_created THEN from_ai.plan_id ELSE from_msg.plan_id,
   existing |-> IF from_msg.existing # NoPlan THEN from_msg.existing ELSE from_ai.existing,
   mark_target |-> marked.target,
   updated_tasks |-> marked.updated,
   marking_calls |-> marked.calls,
   before_marking |-> from_ai.plans,
   fallback |-> ~ai.ok]

\* lines 197-246: the turn from the marking of progress on
chat_from_ai_plan(message, ai, failing, branch, deact, from_msg, from_ai) ==
  chat_response(ai, branch, deact, from_msg, from_ai,
                IF ai.ok THEN chat_mark_progress(from_ai.plans, message, failing)
                ELSE NoMarking(from_ai.plans))

\* lines 183-195: the turn from the plan of the specialist's answer on
chat_from_message_plan(message, ai, failing, branch, deact, from_msg) ==
  chat_from_ai_plan(message, ai, failing, branch, deact, from_msg,
                    IF ai.ok /\ ~from_msg.plan_created
                    THEN process_ai_response_for_plan(from_msg.plans, ai.text)
                    ELSE NoPlanResult(from_msg.plans))

\* lines 129-139: the turn from the plan of the message on
chat_from_deactivation(message, analysis, ai, failing, branch, deact) ==
  chat_from_message_plan(message, ai, failing, branch, deact,
                         IF branch = "plan"
                         THEN process_message_for_plan(deact.plans, message, analysis)
                         ELSE NoPlanResult(deact.plans))

\* lines 98-127: the turn from the deactivation branch on
chat_from_branch(ps, message, analysis, ai, failing, branch) ==
  chat_from_deactivation(message, analysis, ai, failing, branch,
                         IF branch = "deactivate" THEN chat_deactivate(ps, message)
                         ELSE NoDeactivation(ps))

\* one chat turn on the store ps.  analysis is the answer of the plan
\* analysis LLM call, ai the answer of the specialist (ok = FALSE: the call
\* raised, and the turn answers with the fallback message).
chat_failing(ps, message, analysis, ai, failing) ==
  chat_from_branch(ps, message, analysis, ai, failing, branch_of(message))

\* the turn on a store whose calls all succeed
chat(ps, message, analysis, ai) == chat_failing(ps, message, analysis, ai, NoFailure)

(***************************************************************************)
(* The daily report: daily_progress_report in routes/plans.py.             *)
(***************************************************************************)
\* line 312: directed mode
daily_directed(message, mark_all_complete) ==
  mark_all_complete \/ contains(lower(message), "mark all") \/ contains(lower(message), "all tasks")

\* lines 316-328: the plan of directed mode
daily_target(ps, message, specific_plan_condition) ==
  LET view == get_active_plans(ps)
  IN IF specific_plan_condition # NoCondition
     THEN FirstPlan(view, [k \in DOMAIN view |->
                             any_in(long_words(lower(specific_plan_condition)),
                                    lower(view[k].condition))])
     ELSE FirstPlan(view, [k \in DOMAIN view |->
                             any_in(long_words(lower(view[k].condition)), lower(message))])

\* len([ind for ind in progress_indicators if ind in message_lower])
indicator_count(message_lower) ==
  Cardinality({n \in 1..Len(progress_indicators) : contains(message_lower, progress_indicators[n])})

\* a faulty variant of heuristic_selects: the second condition of the "and" is
\* missing, so that one indicator word is enough
heuristic_selects_any_indicator(task_name, message_lower) ==
  any_in(progress_indicators, message_lower)

\* lines 347-350: whether heuristic mode marks a pending task of that name
heuristic_selects(task_name, message_lower) ==
  /\ any_in(progress_indicators, message_lower)
  /\ \/ \E n \in 1..Len(long_words(message_lower)) :
          contains(lower(task_name), long_words(message_lower)[n])
     \/ indicator_count(message_lower) >= 2

\* the (plan, task) pairs of the plans read at the start, in loop order
RECURSIVE plan_task_pairs(_)
plan_task_pairs(ps_view) ==
  IF ps_view = <<>> THEN <<>>
  ELSE [n \in 1..Len(Head(ps_view).tasks) |->
          [plan_id |-> Head(ps_view).id, task |-> Head(ps_view).tasks[n]]]
       \o plan_task_pairs(Tail(ps_view))

\* lines 342-354: the loop of heuristic mode
RECURSIVE heuristic_loop(_, _, _, _, _, _)
heuristic_loop(ps, pairs, message_lower, updated, calls, failing) ==
  IF pairs = <<>> THEN [plans |-> ps, updated |-> updated, calls |-> calls]
  ELSE LET p == Head(pairs)
           u == update_task_progress_call(ps, p.plan_id, p.task.task_name, Today,
                                          (Len(calls) + 1) \notin failing)
       IN IF Today \notin Range(p.task.progress) /\ heuristic_selects(p.task.task_name, message_lower)
          THEN heuristic_loop(u.plans, Tail(pairs), message_lower,
                              IF u.ret THEN Append(updated, p.task.task_name) ELSE updated,
                              Append(calls, store_call(p.plan_id, p.task.task_name, u.ret)),
                              failing)
          ELSE heuristic_loop(ps, Tail(pairs), message_lower, updated, calls, failing)

\* daily_progress_report
daily_progress_report_failing(ps, message, mark_all_complete, specific_plan_condition, failing) ==
  LET view == get_active_plans(ps)
      directed == daily_directed(message, mark_all_complete)
      target == daily_target(ps, message, specific_plan_condition)
      all == mark_pending_tasks(ps, target, ps[target].tasks, <<>>, <<>>, failing)
      some == heuristic_loop(ps, plan_task_pairs(view), lower(message), <<>>, <<>>, failing)
  IN IF directed
     THEN IF target = NoPlan
          THEN [plans |-> ps, directed |-> TRUE, target |-> NoPlan, updated_tasks |-> <<>>,
                calls |-> <<>>]
          ELSE [plans |-> all.plans, directed |-> TRUE, target |-> target,
                updated_tasks |-> all.updated, calls |-> all.calls]
     ELSE [plans |-> some.plans, directed |-> FALSE, target |-> NoPlan,
           updated_tasks |-> some.updated, calls |-> some.calls]

\* the report on a store whose calls all succeed
daily_progress_report(ps, message, mark_all_complete, specific_plan_condition) ==
  daily_progress_report_failing(ps, message, mark_all_complete, specific_plan_condition,
                                NoFailure)

(***************************************************************************)
(* The state machine: one action per request.                              *)
(***************************************************************************)
Workers == {1, 2}

(***************************************************************************)
(* The specialist counters: database.py and routes/analytics.py.  The      *)
(* views carry the dates and the word counts; the minutes derived from the *)
(* word counts and the display dates are left out.                         *)
(***************************************************************************)
\* range(7): the days of the trailing window
WindowDays == 7

\* strftime("%Y-%m-%d") of consecutive calendar days
Calendar ==
  <<"2024-12-25", "2024-12-26", "2024-12-27", "2024-12-28", "2024-12-29",
    "2024-12-30", "2024-12-31", "2025-01-01", "2025-01-02">>

strftime(day) == Calendar[day]

\* the characters of a date, in the order of their code points
CodeOrder == "-0123456789"

Ord(c) == CHOOSE i \in 1..Len(CodeOrder) : CharAt(CodeOrder, i) = c

\* Python's a < b for strings: the first position where they differ decides,
\* and a proper prefix is the smaller one
StrLess(a, b) ==
  LET differ == {i \in 1..Min(Len(a), Len(b)) : CharAt(a, i) # CharAt(b, i)}
  IN IF differ = {} THEN Len(a) < Len(b)
     ELSE LET i == CHOOSE x \in differ : \A y \in differ : x <= y
          IN Ord(CharAt(a, i)) < Ord(CharAt(b, i))

\* dict.get(key, 0)
get_or_zero(d, key) == IF key \in DOMAIN d THEN d[key] ELSE 0

\* d[key] = value
dict_set(d, key, value) == [k \in DOMAIN d \cup {key} |-> IF k = key THEN value ELSE d[k]]

\* find_one({"specialist_name": specialist_name}): the first such document, 0 for None
find_one_stats(stats, specialist_name) ==
  IF \E k \in 1..Len(stats) : stats[k].specialist_name = specialist_name
  THEN CHOOSE k \in 1..Len(stats) :
         /\ stats[k].specialist_name = specialist_name
         /\ \A j \in 1..(k - 1) : stats[j].specialist_name # specialist_name
  ELSE 0

\* a faulty variant of update_existing_stats: today's count is overwritten
\* with the words of this answer instead of being added to
update_existing_stats_overwriting(stats, k, word_count, today) ==
  [stats EXCEPT ![k] =
     [@ EXCEPT !.total_words_generated = @ + word_count,
               !.total_messages_sent = @ + 1,
               !.daily_word_counts = dict_set(@, today, word_count)]]

\* lines 353-367: update_one on the document found
update_existing_stats(stats, k, word_count, today) ==
  [stats EXCEPT ![k] =
     [@ EXCEPT !.total_words_generated = @ + word_count,
               !.total_messages_sent = @ + 1,
               !.daily_word_counts = dict_set(@, today, get_or_zero(@, today) + word_count)]]

\* lines 368-380: insert_one of a new document
insert_new_stats(stats, specialist_name, word_count, today) ==
  Append(stats, [specialist_name |-> specialist_name,
                 total_words_generated |-> word_count,
                 total_messages_sent |-> 1,
                 daily_word_counts |-> [d \in {today} |-> word_count]])

update_stats_found(stats, specialist_name, word_count, today, k) ==
  IF k # 0 THEN update_existing_stats(stats, k, word_count, today)
  ELSE insert_new_stats(stats, specialist_name, word_count, today)

\* update_specialist_word_count, today the date of the call
update_specialist_word_count(stats, specialist_name, message, today) ==
  update_stats_found(stats, specialist_name, Len(Split(message)), today,
                     find_one_stats(stats, specialist_name))

\* store_chat_message, as far as the counters go (lines 154-156)
store_chat_message(stats, message, role, specialist_name, today) ==
  IF role = "ai" /\ specialist_name # ""
  THEN update_specialist_word_count(stats, specialist_name, message, today)
  ELSE stats

\* get_specialist_stats(): every document of the collection
get_specialist_stats(stats) ==
  [k \in 1..Len(stats) |->
     [specialist_name |-> stats[k].specialist_name,
      total_words_generated |-> stats[k].total_words_generated,
      total_messages_sent |-> stats[k].total_messages_sent,
      daily_word_counts |-> stats[k].daily_word_counts]]

\* lines 419-423: today, yesterday, ... as date strings
last_7_days(today) == [i \in 1..WindowDays |-> strftime(today - (i - 1))]

reversed(q) == [k \in 1..Len(q) |-> q[Len(q) + 1 - k]]

\* lines 428-433: total_words of one day
RECURSIVE total_words_on(_, _)
total_words_on(stats, date_str) ==
  IF stats = <<>> THEN 0
  ELSE get_or_zero(Head(stats).daily_word_counts, date_str) + total_words_on(Tail(stats), date_str)

\* lines 429-435: specialist_breakdown of one day, a later document of a name
\* overwriting an earlier one
specialist_breakdown(stats, date_str) ==
  LET counted == {k \in 1..Len(stats) : get_or_zero(stats[k].daily_word_counts, date_str) > 0}
  IN [name \in {stats[k].specialist_name : k \in counted} |->
        stats[CHOOSE k \in counted :
                /\ stats[k].specialist_name = name
                /\ \A j \in counted : stats[j].specialist_name = name => j <= k
             ].daily_word_counts[date_str]]

\* lines 425-448: the entries of the days given
time_data_of(stats, days) ==
  [k \in 1..Len(days) |->
     [date |-> days[k],
      total_words |-> total_words_on(stats, days[k]),
      specialist_breakdown |-> specialist_breakdown(stats, days[k])]]

\* lines 413-450 with the stats read
time_spent_of(stats, today) ==
  IF stats = <<>> THEN <<>>
  ELSE time_data_of(stats, reversed(last_7_days(today)))

get_time_spent_last_7_days(stats, today) ==
  time_spent_of(get_specialist_stats(stats), today)

RECURSIVE SumWords(_)
SumWords(time_data) ==
  IF time_data = <<>> THEN 0 ELSE Head(time_data).total_words + SumWords(Tail(time_data))

\* GET /analytics/time-spent
time_spent_response(time_data) ==
  [daily_time_data |-> time_data,
   total_words_generated |-> SumWords(time_data),
   days_with_activity |-> Len(SelectSeq(time_data, LAMBDA day : day.total_words > 0))]

get_time_spent_analytics(stats, today) ==
  time_spent_response(get_time_spent_last_7_days(stats, today))

\* lines 61-70: the entries of the days on which the specialist has words
recorded_items(time_data, specialist) ==
  LET days == SelectSeq(time_data, LAMBDA day : specialist \in DOMAIN day.specialist_breakdown)
  IN [k \in 1..Len(days) |-> [date |-> days[k].date, words |-> days[k].specialist_breakdown[specialist]]]

\* lines 74-82: a zero entry for each day without one
missing_items(time_data, items) ==
  LET days == SelectSeq(time_data, LAMBDA day : \A k \in 1..Len(items) : items[k].date # day.date)
  IN [k \in 1..Len(days) |-> [date |-> days[k].date, words |-> 0]]

\* the item put behind the items of the sorted list that are not later than it
RECURSIVE insert_by_date(_, _)
insert_by_date(sorted, item) ==
  IF sorted = <<>> THEN <<item>>
  ELSE IF StrLess(item.date, Head(sorted).date) THEN <<item>> \o sorted
  ELSE <<Head(sorted)>> \o insert_by_date(Tail(sorted), item)

\* list.sort(key=lambda x: x["date"]): stable, ascending
RECURSIVE sort_by_date(_)
sort_by_date(items) ==
  IF items = <<>> THEN <<>>
  ELSE insert_by_date(sort_by_date(SubSeq(items, 1, Len(items) - 1)), items[Len(items)])

\* the series of a specialist without the filling of lines 72-82
trend_unfilled(time_data, items) == sort_by_date(items)

\* lines 72-84: fill, then sort
trend_filled(time_data, items) == sort_by_date(items \o missing_items(time_data, items))

\* lines 59-84
specialist_trends_of(time_data) ==
  [specialist \in UNION {DOMAIN time_data[k].specialist_breakdown : k \in 1..Len(time_data)} |->
     trend_filled(time_data, recorded_items(time_data, specialist))]

\* lines 88-96
specialist_totals_of(stats) ==
  [k \in 1..Len(stats) |->
     [specialist_name |-> stats[k].specialist_name,
      total_words |-> stats[k].total_words_generated,
      total_messages |-> stats[k].total_messages_sent]]

\* GET /analytics/word-generation-trends
get_word_generation_trends(stats, today) ==
  [specialist_trends |-> specialist_trends_of(get_time_spent_last_7_days(stats, today)),
   specialist_totals |-> specialist_totals_of(get_specialist_stats(stats))]

\* MONGODB_URI of a deployment with a store
ConfiguredUri == "mongodb://localhost:27017"

\* no request handled yet
NoRequest == [op |-> "none", message |-> ""]

Idle == [w \in Workers |-> "idle"]
NoArgs == [w \in Workers |-> [plan_id |-> NoPlan, task_name |-> "", date |-> ""]]
NoLoc == [w \in Workers |-> <<>>]
NoRets == [w \in Workers |-> FALSE]

Init ==
  /\ plans = <<>>
  /\ last = NoRequest
  /\ pc = Idle
  /\ args = NoArgs
  /\ loc = NoLoc
  /\ rets = NoRets
  /\ specialist_stats = <<>>
  /\ now = WindowDays
  /\ mongodb_uri = ConfiguredUri

\* the plan analysis is asked for only inside process_message_for_plan
AnalysesFor(message) ==
  IF branch_of(message) = "plan"
  THEN PlanAnalyses
  ELSE {[needs_plan |-> FALSE, plan_data |-> [error |-> "not called"]]}

\* POST /chat
Chat ==
  \E message \in ChatMessages, ai \in AiOutcomes :
    \E analysis \in AnalysesFor(message) :
      LET r == chat(plans, message, analysis, ai)
      IN /\ Len(r.plans) <= MaxPlans
         /\ plans' = r.plans
         /\ last' = [op |-> "chat", message |-> message]
         /\ UNCHANGED <<pc, args, loc, rets, specialist_stats, now, mongodb_uri>>

\* POST /progress/daily-report
DailyReport ==
  \E message \in ReportMessages, mark_all_complete \in BOOLEAN,
     specific_plan_condition \in ReportConditions :
    LET r == daily_progress_report(plans, message, mark_all_complete, specific_plan_condition)
    IN /\ plans' = r.plans
       /\ last' = [op |-> "daily", message |-> message]
       /\ UNCHANGED <<pc, args, loc, rets, specialist_stats, now, mongodb_uri>>

\* POST /plans/{plan_id}/progress: 404 when the store answers False, else 200
route_update_task_progress(ps, plan_id, task_name, date) ==
  LET r == update_task_progress(ps, plan_id, task_name, date)
  IN [plans |-> r.plans, status |-> IF r.ret THEN 200 ELSE 404]

\* the requests of a run all carry today's date
RouteUpdateTaskProgress ==
  \E plan_id \in 1..(MaxPlans + 1), task_name \in TaskNames :
    /\ plans' = route_update_task_progress(plans, plan_id, task_name, Today).plans
    /\ last' = [op |-> "progress", message |-> ""]
    /\ UNCHANGED <<pc, args, loc, rets, specialist_stats, now, mongodb_uri>>

\* DELETE /plans/{plan_id}: 404 when the store answers False, else 200
route_deactivate_plan(ps, plan_id) ==
  LET r == deactivate_plan(ps, plan_id)
  IN [plans |-> r.plans, status |-> IF r.ret THEN 200 ELSE 404]

RouteDeactivatePlan ==
  \E plan_id \in 1..(MaxPlans + 1) :
    /\ plans' = route_deactivate_plan(plans, plan_id).plans
    /\ last' = [op |-> "deactivate", message |-> ""]
    /\ UNCHANGED <<pc, args, loc, rets, specialist_stats, now, mongodb_uri>>

Next ==
  \/ Chat
  \/ DailyReport
  \/ RouteUpdateTaskProgress
  \/ RouteDeactivatePlan

Spec == Init /\ [][Next]_vars

(***************************************************************************)
(* Two concurrent calls of update_task_progress.  The call reads the       *)
(* document (find_one), changes its copy, and writes the tasks array back  *)
(* (update_one); the two store operations of one call are separate steps.  *)
(* `last` keeps the store as it was when the calls began.                  *)
(***************************************************************************)
\* the stores the calls can start from: a two-task plan, nothing marked or
\* one task marked today or on the earlier day
ConcBase ==
  create_health_plan(<<>>, "Back Care Plan", "lower back pain", MaxTimelineDays,
                     <<"Walking daily", "Stretch">>).plans

ConcStores ==
  {ConcBase,
   update_task_progress(ConcBase, 1, "Walking daily", Today).plans,
   update_task_progress(ConcBase, 1, "Stretch", "2024-01-01").plans}

\* the arguments of a call; plan 2 does not exist, "Swim" is no task
ConcArgs ==
  [plan_id : {1, 2}, task_name : {"Walking daily", "Stretch", "Swim"}, date : Dates]

InitConc ==
  /\ plans \in ConcStores
  /\ last = [op |-> "concurrent", message |-> "", before |-> plans]
  /\ pc = [w \in Workers |-> "find"]
  /\ args \in [Workers -> ConcArgs]
  /\ loc = NoLoc
  /\ rets = NoRets
  /\ specialist_stats = <<>>
  /\ now = WindowDays
  /\ mongodb_uri = ConfiguredUri

\* lines 285-288: find_one; "if not plan: return False"
FindMissing(w) ==
  /\ pc[w] = "find"
  /\ ~plan_exists(plans, args[w].plan_id)
  /\ pc' = [pc EXCEPT ![w] = "done"]
  /\ rets' = [rets EXCEPT ![w] = FALSE]
  /\ UNCHANGED <<plans, last, args, loc, specialist_stats, now, mongodb_uri>>

\* lines 285-296: find_one, then the loop over the copy that was read
Find(w) ==
  /\ pc[w] = "find"
  /\ plan_exists(plans, args[w].plan_id)
  /\ loc' = [loc EXCEPT ![w] = mark_in_tasks(plans[args[w].plan_id].tasks,
                                             args[w].task_name, args[w].date)]
  /\ pc' = [pc EXCEPT ![w] = "write"]
  /\ UNCHANGED <<plans, last, args, rets, specialist_stats, now, mongodb_uri>>

\* lines 298-310: update_one with the copy; "return True"
Write(w) ==
  /\ pc[w] = "write"
  /\ plans' = write_back(plans, args[w].plan_id, args[w].task_name, args[w].date, loc[w])
  /\ pc' = [pc EXCEPT ![w] = "done"]
  /\ rets' = [rets EXCEPT ![w] = TRUE]
  /\ UNCHANGED <<last, args, loc, specialist_stats, now, mongodb_uri>>

NextConc ==
  \/ \E w \in Workers : FindMissing(w)
  \/ \E w \in Workers : Find(w)
  \/ \E w \in Workers : Write(w)

SpecConc == InitConc /\ [][NextConc]_vars

(***************************************************************************)
(* The extractor on generated text: a specialist answer is put together    *)
(* from pieces, then process_ai_response_for_plan is applied to it on the  *)
(* empty store.                                                            *)
(***************************************************************************)
\* the longest answer put together from pieces
MaxTextLen == 40

\* a day block of one sentence, a day block without a full stop, second
\* sentences with and without the letter d, and text without a day marker
Pieces == {"Day 1: Walk. ", "Day 2: Rest ", "Do it. ", "Sip tea. ", "Hello. "}

\* an answer of nine day blocks
NineDays ==
  "Day 1: a. Day 2: b. Day 3: c. Day 4: e. Day 5: f. Day 6: g. Day 7: h. Day 8: i. Day 9: j."

InitText ==
  /\ plans = <<>>
  /\ last \in {[op |-> "text", message |-> t] : t \in {"", NineDays}}
  /\ pc = Idle
  /\ args = NoArgs
  /\ loc = NoLoc
  /\ rets = NoRets
  /\ specialist_stats = <<>>
  /\ now = WindowDays
  /\ mongodb_uri = ConfiguredUri

\* the specialist's answer grows by one piece
AppendPiece ==
  \E piece \in Pieces :
    /\ last.op = "text"
    /\ Len(last.message) + Len(piece) <= MaxTextLen
    /\ last' = [op |-> "text", message |-> last.message \o piece]
    /\ UNCHANGED <<plans, pc, args, loc, rets, specialist_stats, now, mongodb_uri>>

\* routes/chat.py lines 183-195: the answer goes through
\* process_ai_response_for_plan
Respond ==
  /\ last.op = "text"
  /\ plans' = process_ai_response_for_plan(plans, last.message).plans
  /\ last' = [op |-> "extracted", message |-> last.message]
  /\ UNCHANGED <<pc, args, loc, rets, specialist_stats, now, mongodb_uri>>

NextText ==
  \/ AppendPiece
  \/ Respond

SpecText == InitText /\ [][NextText]_vars

(***************************************************************************)
(* Plans with short labels: the requests that resolve a plan from text, on *)
(* stores whose plans come from a plan analysis that labels them with      *)
(* words of at most 3 characters.                                          *)
(***************************************************************************)
\* what the plan analysis call answers here
ShortAnalyses ==
  {[needs_plan |-> TRUE,
    plan_data |-> [needs_plan |-> TRUE, condition |-> "flu", plan_name |-> "Fix",
                   timeline_days |-> 3, tasks |-> <<"Rest", "Swim">>]],
   [needs_plan |-> TRUE,
    plan_data |-> [needs_plan |-> TRUE, condition |-> "bad leg", plan_name |-> "Leg Up",
                   timeline_days |-> 2, tasks |-> <<"Stretch">>]]}

\* POST /chat
ChatShort ==
  \E message \in ChatMessages, ai \in AiOutcomes, analysis \in ShortAnalyses :
    LET r == chat(plans, message, analysis, ai)
    IN /\ Len(r.plans) <= MaxPlans
       /\ plans' = r.plans
       /\ last' = [op |-> "chat", message |-> message]
       /\ UNCHANGED <<pc, args, loc, rets, specialist_stats, now, mongodb_uri>>

NextShort ==
  \/ ChatShort
  \/ DailyReport
  \/ RouteDeactivatePlan

SpecShort == Init /\ [][NextShort]_vars

(***************************************************************************)
(* The counters over the days: chat turns whose answers are counted, the   *)
(* clock, and the two analytics views.                                     *)
(***************************************************************************)
MaxMessages == 3

\* the answers counted so far
RECURSIVE MessagesCounted(_)
MessagesCounted(stats) ==
  IF stats = <<>> THEN 0 ELSE Head(stats).total_messages_sent + MessagesCounted(Tail(stats))

\* team (agents.py): the specialists that answer here
Specialists == {"Ruby", "Dr_Warren"}

\* what the specialist answers here: a text without a plan, or the call raises
StatsOutcomes ==
  {[ok |-> TRUE, text |-> t] : t \in {"", "Rest well."}}
    \cup {[ok |-> FALSE, text |-> ""]}

\* line 250: the answer of a turn whose specialist call raised
FallbackMessage ==
  "I'm sorry, I encountered an issue processing your request. Could you please try again?"

\* response_content of a turn that neither creates a plan nor marks progress
response_content(ai) == IF ai.ok THEN ai.text ELSE FallbackMessage

\* POST /chat with a plain message: the answer is stored and counted (line 253)
ChatStats ==
  \E specialist_name \in Specialists, ai \in StatsOutcomes :
    LET r == chat(plans, "hello", [needs_plan |-> FALSE, plan_data |-> [error |-> "not called"]], ai)
        stats == store_chat_message(specialist_stats, response_content(ai), "ai",
                                    specialist_name, strftime(now))
    IN /\ MessagesCounted(stats) <= MaxMessages
       /\ plans' = r.plans
       /\ specialist_stats' = stats
       /\ last' = [op |-> "chat", message |-> "hello"]
       /\ UNCHANGED <<pc, args, loc, rets, now, mongodb_uri>>

\* midnight: datetime.now() is a day later
NextDay ==
  /\ now < Len(Calendar)
  /\ now' = now + 1
  /\ UNCHANGED <<plans, last, pc, args, loc, rets, specialist_stats, mongodb_uri>>

\* GET /analytics/time-spent
TimeSpent ==
  /\ last' = [op |-> "time-spent", message |-> "",
              response |-> get_time_spent_analytics(specialist_stats, now)]
  /\ UNCHANGED <<plans, pc, args, loc, rets, specialist_stats, now, mongodb_uri>>

\* GET /analytics/word-generation-trends
WordGenerationTrends ==
  /\ last' = [op |-> "trends", message |-> "",
              response |-> get_word_generation_trends(specialist_stats, now)]
  /\ UNCHANGED <<plans, pc, args, loc, rets, specialist_stats, now, mongodb_uri>>

NextStats ==
  \/ ChatStats
  \/ NextDay
  \/ TimeSpent
  \/ WordGenerationTrends

SpecStats == Init /\ [][NextStats]_vars

(***************************************************************************)
(* The reconciliation loops on a store whose update_task_progress calls    *)
(* can fail, one request on each store.  `last` keeps the store as the     *)
(* loop found it, the calls the loop made and the list it returned.        *)
(***************************************************************************)
MaxFailAt == 3

\* the positions, among the calls of a loop, of the calls that fail
Failures == SUBSET (1..MaxFailAt)

\* the stores the request can find: the plan of the back and the plan of the
\* stress as create_and_store_plan stores them, nothing marked or one task
\* marked today, and the plan of the back with a plan taken from an answer
\* of the specialist that names two tasks alike
BackPlanData ==
  [needs_plan |-> TRUE, condition |-> "lower back pain", plan_name |-> "Back Care Plan",
   timeline_days |-> 9, tasks |-> <<"Walking daily", "Stretch">>]

CalmPlanData ==
  [needs_plan |-> TRUE, condition |-> "stress", plan_name |-> "Calm", timeline_days |-> 0,
   tasks |-> <<"Rest">>]

BackStore == create_and_store_plan(<<>>, BackPlanData).plans

BackCalmStore == create_and_store_plan(BackStore, CalmPlanData).plans

FailingStores ==
  {BackStore,
   BackCalmStore,
   update_task_progress(BackCalmStore, 1, "Stretch", Today).plans,
   process_ai_response_for_plan(BackStore, "Day 1: Walk. Day 1: Walk.").plans}

InitFailing ==
  /\ plans \in FailingStores
  /\ last = NoRequest
  /\ pc = Idle
  /\ args = NoArgs
  /\ loc = NoLoc
  /\ rets = NoRets
  /\ specialist_stats = <<>>
  /\ now = WindowDays
  /\ mongodb_uri = ConfiguredUri

\* request.message of the turns that ask for marking
MarkingMessages == {"cancel back pain, all done", "all done, no pain today"}

\* POST /chat
ChatFailing ==
  \E message \in MarkingMessages, ai \in AiOutcomes, failing \in Failures :
    \E analysis \in AnalysesFor(message) :
      LET r == chat_failing(plans, message, analysis, ai, failing)
      IN /\ last = NoRequest
         /\ Len(r.plans) <= MaxPlans
         /\ plans' = r.plans
         /\ last' = [op |-> "chat", message |-> message, failing |-> failing,
                     loop |-> IF r.mark_target = NoPlan THEN "none" ELSE "all",
                     start |-> r.before_marking, target |-> r.mark_target,
                     calls |-> r.marking_calls, updated_tasks |-> r.updated_tasks]
         /\ UNCHANGED <<pc, args, loc, rets, specialist_stats, now, mongodb_uri>>

\* POST /progress/daily-report
DailyReportFailing ==
  \E message \in ReportMessages, mark_all_complete \in BOOLEAN,
     specific_plan_condition \in ReportConditions, failing \in Failures :
    LET r == daily_progress_report_failing(plans, message, mark_all_complete,
                                           specific_plan_condition, failing)
    IN /\ last = NoRequest
       /\ plans' = r.plans
       /\ last' = [op |-> "daily", message |-> message, failing |-> failing,
                   loop |-> IF ~r.directed THEN "heuristic"
                            ELSE IF r.target = NoPlan THEN "none" ELSE "all",
                   start |-> plans, target |-> r.target,
                   calls |-> r.calls, updated_tasks |-> r.updated_tasks]
       /\ UNCHANGED <<pc, args, loc, rets, specialist_stats, now, mongodb_uri>>

NextFailing ==
  \/ ChatFailing
  \/ DailyReportFailing

SpecFailing == InitFailing /\ [][NextFailing]_vars

(***************************************************************************)
(* The chat turn as the client sees it: the answer of POST /chat, with an  *)
(* image that may not decode and a specialist call that may raise.  The    *)
(* notes the turn appends to the specialist's text are left out.           *)
(***************************************************************************)
\* request.image_data: none, an image, not an image
NoImage == ""
GoodImage == "data:image/png;base64,iVBORw0KGgo="
ImageInputs == {NoImage, GoodImage, "data:image/png;base64,iVBOR"}

\* str(e) of what base64.b64decode raises on the third input
ImageErrorText == "Incorrect padding"

\* str(e) of what the specialist call raises
GenerationErrorText == "Connection error."

\* process_image_data (utils.py:127-139): the image, or HTTPException(400)
process_image_data(image_data) ==
  IF image_data = GoodImage THEN [ok |-> TRUE, status_code |-> 200, detail |-> ""]
  ELSE [ok |-> FALSE, status_code |-> 400,
        detail |-> "Error processing image: " \o ImageErrorText]

\* str() of an HTTPException: "status: detail" where the framework defines
\* __str__, the empty string where it does not
http_exception_str(e, renders) ==
  IF renders THEN ToString(e.status_code) \o ": " \o e.detail ELSE ""

\* lines 277-279: HTTPException(status_code=500, detail=str(e))
chat_error(ps, e, renders) ==
  [plans |-> ps, status |-> 500, message |-> "", detail |-> http_exception_str(e, renders),
   failed |-> "image"]

\* lines 264-275: the ChatResponse
chat_answer(ai, r) ==
  [plans |-> r.plans, status |-> 200,
   message |-> IF r.fallback THEN FallbackMessage ELSE ai.text, detail |-> "",
   failed |-> IF r.fallback THEN "generation" ELSE "none"]

\* lines 54-279 with the image of lines 58-63 decoded
chat_with_image(ps, message, analysis, ai, renders, image) ==
  IF ~image.ok THEN chat_error(ps, image, renders)
  ELSE chat_answer(ai, chat(ps, message, analysis, ai))

\* one chat turn as the client sees it
chat_turn(ps, message, analysis, ai, image_data, renders) ==
  IF image_data = NoImage THEN chat_answer(ai, chat(ps, message, analysis, ai))
  ELSE chat_with_image(ps, message, analysis, ai, renders, process_image_data(image_data))

\* the turn answered r: the store and the answer as the client sees it
TurnAnswered(message, image_data, renders, r) ==
  /\ renders \/ r.failed = "image"
  /\ Len(r.plans) <= MaxPlans
  /\ plans' = r.plans
  /\ last' = [op |-> "chat", message |-> message, image_data |-> image_data,
              failed |-> r.failed,
              response |-> [status |-> r.status, message |-> r.message, detail |-> r.detail]]
  /\ UNCHANGED <<pc, args, loc, rets, specialist_stats, now, mongodb_uri>>

\* POST /chat
ChatTurn ==
  \E message \in ChatMessages, ai \in AiOutcomes, image_data \in ImageInputs,
     renders \in BOOLEAN :
    \E analysis \in AnalysesFor(message) :
      TurnAnswered(message, image_data, renders,
                   chat_turn(plans, message, analysis, ai, image_data, renders))

NextTurn ==
  \/ ChatTurn
  \/ RouteDeactivatePlan

SpecTurn == Init /\ [][NextTurn]_vars

(***************************************************************************)
(* The store unavailable: no MONGODB_URI when the DatabaseManager was      *)
(* built, or a store call that raises.  `last` keeps what the call or the  *)
(* turn answered.                                                          *)
(***************************************************************************)
\* MONGODB_URI not set
NoUri == ""

\* __init__ (database.py:56-65): plans_collection, chat_collection and
\* specialist_stats_collection are assigned only when the URI is set
has_collections(uri) == uri # NoUri

\* str() of the AttributeError of reading an attribute that was never assigned
AttributeErrorText(attr) == "'DatabaseManager' object has no attribute '" \o attr \o "'"

\* get_active_plans (database.py:255-278): the test of line 257 reads the
\* attribute outside the try; a store call that raises is caught at 276-278
get_active_plans_call(ps, uri, store_ok) ==
  IF ~has_collections(uri)
  THEN [raised |-> AttributeErrorText("plans_collection"), value |-> <<>>]
  ELSE IF ~store_ok THEN [raised |-> "", value |-> <<>>]
  ELSE [raised |-> "", value |-> get_active_plans(ps)]

\* find(sort=[("timestamp", -1)], limit=limit) on the chat history, the
\* history in the order of the timestamps
get_last_messages(history, limit) ==
  SubSeq(reversed(history), 1, Min(limit, Len(history)))

\* get_last_messages (database.py:201-224): the test of line 203 reads the
\* attribute outside the try; a store call that raises is caught at 222-224
get_last_messages_call(history, limit, uri, store_ok) ==
  IF ~has_collections(uri)
  THEN [raised |-> AttributeErrorText("chat_collection"), value |-> <<>>]
  ELSE IF ~store_ok THEN [raised |-> "", value |-> <<>>]
  ELSE [raised |-> "", value |-> get_last_messages(history, limit)]

\* the limit of get_enhanced_context (utils.py:50)
ContextLimit == 10

\* chat.py:277-279 for an exception that is not an HTTPException
chat_store_error(ps, raised) ==
  [plans |-> ps, status |-> 500, message |-> "", detail |-> raised, failed |-> "context"]

\* a turn on a store whose calls all raise: every read answers [] and every
\* write answers False or a dummy id, so the store stays as it is
chat_store_failing(ps, ai) == chat_answer(ai, [plans |-> ps, fallback |-> ~ai.ok])

\* chat.py:54-279 from get_enhanced_context (line 81) on, recent what
\* get_last_messages answered
chat_with_context(ps, message, analysis, ai, store_ok, recent) ==
  IF recent.raised # "" THEN chat_store_error(ps, recent.raised)
  ELSE IF ~store_ok THEN chat_store_failing(ps, ai)
  ELSE chat_answer(ai, chat(ps, message, analysis, ai))

\* one chat turn without an image on a store that may be unavailable
chat_turn_store(ps, message, analysis, ai, uri, store_ok, history) ==
  chat_with_context(ps, message, analysis, ai, store_ok,
                    get_last_messages_call(history, ContextLimit, uri, store_ok))

\* the chat histories the turn can find
Histories ==
  {<<>>,
   <<[message |-> "hello", role |-> "user", specialist_name |-> ""],
     [message |-> "Rest well.", role |-> "ai", specialist_name |-> "Ruby"]>>}

\* the stores and the configurations the requests meet
InitDown ==
  /\ plans \in {<<>>, BackStore}
  /\ last = NoRequest
  /\ pc = Idle
  /\ args = NoArgs
  /\ loc = NoLoc
  /\ rets = NoRets
  /\ specialist_stats = <<>>
  /\ now = WindowDays
  /\ mongodb_uri \in {NoUri, ConfiguredUri}

\* db_manager.get_active_plans()
GetActivePlans ==
  \E store_ok \in BOOLEAN :
    /\ last' = [op |-> "get_active_plans", message |-> "",
                unavailable |-> ~has_collections(mongodb_uri) \/ ~store_ok,
                result |-> get_active_plans_call(plans, mongodb_uri, store_ok)]
    /\ UNCHANGED <<plans, pc, args, loc, rets, specialist_stats, now, mongodb_uri>>

\* db_manager.get_last_messages(limit)
GetLastMessages ==
  \E store_ok \in BOOLEAN, history \in Histories, limit \in {1, ContextLimit} :
    /\ last' = [op |-> "get_last_messages", message |-> "",
                unavailable |-> ~has_collections(mongodb_uri) \/ ~store_ok,
                result |-> get_last_messages_call(history, limit, mongodb_uri, store_ok)]
    /\ UNCHANGED <<plans, pc, args, loc, rets, specialist_stats, now, mongodb_uri>>

\* the turn answered r
TurnAnsweredDown(message, store_ok, r) ==
  /\ Len(r.plans) <= MaxPlans
  /\ plans' = r.plans
  /\ last' = [op |-> "chat", message |-> message,
              unavailable |-> ~has_collections(mongodb_uri) \/ ~store_ok,
              response |-> [status |-> r.status, message |-> r.message, detail |-> r.detail]]
  /\ UNCHANGED <<pc, args, loc, rets, specialist_stats, now, mongodb_uri>>

\* POST /chat
ChatDown ==
  \E message \in ChatMessages, ai \in AiOutcomes, store_ok \in BOOLEAN, history \in Histories :
    \E analysis \in AnalysesFor(message) :
      TurnAnsweredDown(message, store_ok,
                       chat_turn_store(plans, message, analysis, ai, mongodb_uri, store_ok, history))

NextDown ==
  \/ GetActivePlans
  \/ GetLastMessages
  \/ ChatDown

SpecDown == InitDown /\ [][NextDown]_vars

(***************************************************************************)
(* Two concurrent chat turns in process_message_for_plan.  The turn reads  *)
(* the active plans (get_active_plans), asks the plan analysis, and then   *)
(* inserts the plan (create_health_plan); the read and the insert are      *)
(* separate store operations with the analysis call between them.  args    *)
(* holds the message of each turn and what the analysis answers it, loc    *)
(* the plan the read found, rets what the call returned.                   *)
(***************************************************************************)
\* request.message of the two turns
RaceMessages == {"my back pain hurts", "I feel stressed", "all done, no pain today"}

\* the stores the turns can start from
RaceStores == {<<>>, create_and_store_plan(<<>>, BackPlanData).plans}

RaceArgs == [message : RaceMessages, analysis : PlanAnalyses]

\* (plan_created, plan_id) of a call that has not returned
NoReturn == [plan_created |-> FALSE, plan_id |-> NoPlan]

InitRace ==
  /\ plans \in RaceStores
  /\ last = [op |-> "race", message |-> "", before |-> plans]
  /\ pc = [w \in Workers |-> "start"]
  /\ args \in [Workers -> RaceArgs]
  /\ loc = [w \in Workers |-> NoPlan]
  /\ rets = [w \in Workers |-> NoReturn]
  /\ specialist_stats = <<>>
  /\ now = WindowDays
  /\ mongodb_uri = ConfiguredUri

\* the first active plan whose condition is similar to the message
existing_plan_for(ps, user_message) ==
  LET view == get_active_plans(ps)
  IN FirstPlan(view, [k \in DOMAIN view |-> similar_condition(view[k], lower(user_message))])

\* lines 216-222: a progress request returns at once
ProgressRequest(w) ==
  /\ pc[w] = "start"
  /\ any_in(progress_keywords, lower(args[w].message))
  /\ pc' = [pc EXCEPT ![w] = "done"]
  /\ rets' = [rets EXCEPT ![w] = NoReturn]
  /\ UNCHANGED <<plans, last, args, loc, specialist_stats, now, mongodb_uri>>

\* lines 224-233: get_active_plans and the loop over what it answered
FindExisting(w) ==
  /\ pc[w] = "start"
  /\ ~any_in(progress_keywords, lower(args[w].message))
  /\ loc' = [loc EXCEPT ![w] = existing_plan_for(plans, args[w].message)]
  /\ pc' = [pc EXCEPT ![w] = "found"]
  /\ UNCHANGED <<plans, last, args, rets, specialist_stats, now, mongodb_uri>>

\* line 233: the existing plan is returned
ReturnExisting(w) ==
  /\ pc[w] = "found"
  /\ loc[w] # NoPlan
  /\ pc' = [pc EXCEPT ![w] = "done"]
  /\ rets' = [rets EXCEPT ![w] = [plan_created |-> FALSE, plan_id |-> loc[w]]]
  /\ UNCHANGED <<plans, last, args, loc, specialist_stats, now, mongodb_uri>>

\* what lines 235-241 do with the store as it is now
create_after_analysis(ps, analysis) ==
  IF analysis.needs_plan /\ "error" \notin DOMAIN analysis.plan_data
  THEN create_and_store_plan(ps, analysis.plan_data)
  ELSE [plans |-> ps, id |-> NoPlan]

\* lines 235-241: the analysis has answered; create_and_store_plan
CreatePlan(w) ==
  /\ pc[w] = "found"
  /\ loc[w] = NoPlan
  /\ plans' = create_after_analysis(plans, args[w].analysis).plans
  /\ pc' = [pc EXCEPT ![w] = "done"]
  /\ rets' = [rets EXCEPT ![w] =
                [plan_created |-> args[w].analysis.needs_plan
                                  /\ "error" \notin DOMAIN args[w].analysis.plan_data,
                 plan_id |-> create_after_analysis(plans, args[w].analysis).id]]
  /\ UNCHANGED <<last, args, loc, specialist_stats, now, mongodb_uri>>

NextRace ==
  \/ \E w \in Workers : ProgressRequest(w)
  \/ \E w \in Workers : FindExisting(w)
  \/ \E w \in Workers : ReturnExisting(w)
  \/ \E w \in Workers : CreatePlan(w)

SpecRace == InitRace /\ [][NextRace]_vars

(***************************************************************************)
(* Two concurrent update_specialist_word_count calls: each call is a       *)
(* find_one followed by an update_one or an insert_one (database.py        *)
(* 344-378), and the store serves the operations of the two calls in any   *)
(* order.                                                                  *)
(***************************************************************************)
\* the answers counted by the two calls
WordsMessages == {"", "Rest.", "Rest well."}

\* the collection the calls start from: empty, or Ruby counted before
WordsStores ==
  {<<>>,
   update_specialist_word_count(<<>>, "Ruby", "Take care and rest well.", strftime(WindowDays - 1)),
   update_specialist_word_count(<<>>, "Ruby", "Rest.", strftime(WindowDays))}

WordsArgs == [specialist_name : Specialists, message : WordsMessages]

\* existing_stats of a call that has not read yet
NoStats == [k |-> 0]

InitWords ==
  /\ plans = <<>>
  /\ specialist_stats \in WordsStores
  /\ last = [op |-> "words", message |-> "", before |-> specialist_stats]
  /\ pc = [w \in Workers |-> "start"]
  /\ args \in [Workers -> WordsArgs]
  /\ loc = [w \in Workers |-> NoStats]
  /\ rets = [w \in Workers |-> FALSE]
  /\ now = WindowDays
  /\ mongodb_uri = ConfiguredUri

\* lines 341-348: the words are counted and find_one answers
FindStats(w) ==
  /\ pc[w] = "start"
  /\ LET k == find_one_stats(specialist_stats, args[w].specialist_name)
     IN loc' = [loc EXCEPT ![w] = IF k = 0 THEN NoStats
                                  ELSE [k |-> k, doc |-> specialist_stats[k]]]
  /\ pc' = [pc EXCEPT ![w] = "found"]
  /\ UNCHANGED <<plans, last, args, rets, specialist_stats, now, mongodb_uri>>

\* lines 352-365: update_one sets the document k to the values computed from
\* the document existing_stats that find_one answered
set_stats_from(stats, k, existing_stats, word_count, today) ==
  [stats EXCEPT ![k] =
     [@ EXCEPT !.total_words_generated = existing_stats.total_words_generated + word_count,
               !.total_messages_sent = existing_stats.total_messages_sent + 1,
               !.daily_word_counts =
                  dict_set(existing_stats.daily_word_counts, today,
                           get_or_zero(existing_stats.daily_word_counts, today) + word_count)]]

\* lines 350-365: the document was found
UpdateStats(w) ==
  /\ pc[w] = "found"
  /\ loc[w].k # 0
  /\ specialist_stats' = set_stats_from(specialist_stats, loc[w].k, loc[w].doc,
                                        Len(Split(args[w].message)), strftime(now))
  /\ pc' = [pc EXCEPT ![w] = "done"]
  /\ rets' = [rets EXCEPT ![w] = TRUE]
  /\ UNCHANGED <<plans, last, args, loc, now, mongodb_uri>>

\* lines 366-378: no document was found
InsertStats(w) ==
  /\ pc[w] = "found"
  /\ loc[w].k = 0
  /\ specialist_stats' = insert_new_stats(specialist_stats, args[w].specialist_name,
                                          Len(Split(args[w].message)), strftime(now))
  /\ pc' = [pc EXCEPT ![w] = "done"]
  /\ rets' = [rets EXCEPT ![w] = TRUE]
  /\ UNCHANGED <<plans, last, args, loc, now, mongodb_uri>>

NextWords ==
  \/ \E w \in Workers : FindStats(w)
  \/ \E w \in Workers : UpdateStats(w)
  \/ \E w \in Workers : InsertStats(w)

SpecWords == InitWords /\ [][NextWords]_vars

(***************************************************************************)
(* The properties.                                                         *)
(***************************************************************************)
\* the names of the tasks of a plan
task_names_of(plan) == {plan.tasks[t].task_name : t \in 1..Len(plan.tasks)}

\* how often x occurs in the sequence q
Count(q, x) == Cardinality({n \in 1..Len(q) : q[n] = x})

\* the task has today's date in its completion list
done_today(task) == Today \in Range(task.progress)

\* the ids of the deactivated plans of a store
inactive_ids(ps) == {p \in 1..Len(ps) : ~ps[p].active}

\* C1: update_task_progress is idempotent.  In every reachable store no date
\* occurs twice in a task's completion list, and for every existing plan, every
\* task of it and every date, two calls with these arguments both answer True
\* and the second call leaves every completion list of the plan as long as the
\* first call left it.
C1_Idempotent ==
  /\ \A p \in 1..Len(plans) : \A t \in 1..Len(plans[p].tasks) :
       \A d \in Dates : Count(plans[p].tasks[t].progress, d) <= 1
  /\ \A p \in 1..Len(plans) : \A name \in task_names_of(plans[p]) : \A d \in Dates :
       LET first == update_task_progress(plans, p, name, d)
           second == update_task_progress(first.plans, p, name, d)
       IN /\ first.ret
          /\ second.ret
          /\ \A t \in 1..Len(plans[p].tasks) :
               /\ Len(second.plans[p].tasks[t].progress) = Len(first.plans[p].tasks[t].progress)
               /\ Count(second.plans[p].tasks[t].progress, d) <= 1

\* a progress request was answered and a task of a plan has today's date, so
\* that the same request again is the second of two identical calls
C1_Witness ==
  /\ last.op = "progress"
  /\ \E p \in 1..Len(plans) : \E t \in 1..Len(plans[p].tasks) :
       /\ done_today(plans[p].tasks[t])
       /\ update_task_progress(plans, p, plans[p].tasks[t].task_name, Today).plans = plans

\* C2: update_task_progress answers False and changes no completion list when
\* the plan id does not exist or the plan has no task of the given name, and
\* POST /plans/{plan_id}/progress then answers 404.
C2_UnknownAnswersFalse ==
  \A p \in 1..(MaxPlans + 1) : \A name \in TaskNames : \A d \in Dates :
    (~plan_exists(plans, p) \/ name \notin task_names_of(plans[p]))
    => /\ ~update_task_progress(plans, p, name, d).ret
       /\ update_task_progress(plans, p, name, d).plans = plans
       /\ route_update_task_progress(plans, p, name, d).status = 404

\* C3: every stored plan has 1 <= timeline_days <= 7.
C3_TimelineInRange ==
  \A p \in 1..Len(plans) : plans[p].timeline_days \in 1..MaxTimelineDays

\* C4: no step that resolves a plan from text selects a deactivated plan.
\* For every chat turn on a reachable store: the plan matched for deactivation
\* was active; the plan found by the duplicate checks and the plan whose tasks
\* are marked are neither deactivated before the turn nor deactivated earlier
\* in the turn; no deactivated plan is changed.  For every daily report: the
\* target of directed mode is active and no deactivated plan is changed.
C4_DeactivatedNeverSelected ==
  /\ \A message \in ChatMessages : \A ai \in AiOutcomes : \A analysis \in AnalysesFor(message) :
       LET r == chat(plans, message, analysis, ai)
           gone == inactive_ids(plans)
                   \cup (IF r.plan_deactivated THEN {r.deact_target} ELSE {})
       IN /\ r.deact_target \notin inactive_ids(plans)
          /\ r.existing \notin gone
          /\ r.mark_target \notin gone
          /\ \A p \in gone : r.plans[p].tasks = plans[p].tasks
  /\ \A message \in ReportMessages : \A mark_all_complete \in BOOLEAN :
       \A specific_plan_condition \in ReportConditions :
         LET r == daily_progress_report(plans, message, mark_all_complete,
                                        specific_plan_condition)
         IN /\ r.target \notin inactive_ids(plans)
            /\ \A p \in inactive_ids(plans) : r.plans[p] = plans[p]

\* a daily report was handled while a plan that mentions back pain was
\* deactivated with nothing marked, and a later plan has every task marked
C4_Witness ==
  /\ last.op = "daily"
  /\ \E p \in inactive_ids(plans) : \E q \in 1..Len(plans) :
       /\ contains(lower(plans[p].condition), "back pain")
       /\ \A t \in 1..Len(plans[p].tasks) : ~done_today(plans[p].tasks[t])
       /\ q > p
       /\ plans[q].active
       /\ \A t \in 1..Len(plans[q].tasks) : done_today(plans[q].tasks[t])

\* C5: when two concurrent calls of update_task_progress with the same
\* (plan, task, date) for an existing plan and task have both returned, both
\* answered True, the task's completion list holds the date exactly once and
\* every other completion list is as it was when the calls began.
C5_SameTripleConcurrent ==
  (/\ \A w \in Workers : pc[w] = "done"
   /\ args[1] = args[2]
   /\ plan_exists(last.before, args[1].plan_id)
   /\ args[1].task_name \in task_names_of(last.before[args[1].plan_id]))
  => /\ \A w \in Workers : rets[w]
     /\ \A t \in 1..Len(plans[args[1].plan_id].tasks) :
          LET task == plans[args[1].plan_id].tasks[t]
              before == last.before[args[1].plan_id].tasks[t]
          IN IF task.task_name = args[1].task_name
             THEN /\ Count(task.progress, args[1].date) = 1
                  /\ \A d \in Dates \ {args[1].date} :
                       Count(task.progress, d) = Count(before.progress, d)
             ELSE task = before

\* both calls for the same unmarked task and date have returned
C5_Witness ==
  /\ \A w \in Workers : pc[w] = "done" /\ rets[w]
  /\ args[1] = args[2]
  /\ args[1].plan_id = 1
  /\ args[1].task_name = "Walking daily"
  /\ args[1].date = Today
  /\ ~done_today(last.before[1].tasks[1])
  /\ done_today(plans[1].tasks[1])

\* the call whose answer is r gave the task t of plan p today's date
marked_by(r, p, t) ==
  done_today(r.plans[p].tasks[t]) /\ ~done_today(plans[p].tasks[t])

\* the names of the tasks of a plan that lack today's date, in order
RECURSIVE pending_names(_)
pending_names(tasks) ==
  IF tasks = <<>> THEN <<>>
  ELSE (IF done_today(Head(tasks)) THEN <<>> ELSE <<Head(tasks).task_name>>)
       \o pending_names(Tail(tasks))

\* C6: in directed mode of the daily report with a target plan resolved,
\* after the call every task of the target has today's date, the names
\* returned are exactly the tasks that lacked it before, and no other plan is
\* changed.
C6_DirectedMarksEveryTask ==
  \A message \in ReportMessages : \A mark_all_complete \in BOOLEAN :
    \A specific_plan_condition \in ReportConditions :
      LET r == daily_progress_report(plans, message, mark_all_complete,
                                     specific_plan_condition)
      IN (r.directed /\ r.target # NoPlan)
         => /\ \A t \in 1..Len(r.plans[r.target].tasks) : done_today(r.plans[r.target].tasks[t])
            /\ r.updated_tasks = pending_names(plans[r.target].tasks)
            /\ \A p \in 1..Len(plans) : p # r.target => r.plans[p] = plans[p]

\* C7: in heuristic mode of the daily report a task is given today's date
\* only if the message contains a word longer than 3 characters of the task's
\* name, or the message contains two or more indicator words.
C7_MarkedOnlyIfTaskWordInMessage ==
  \A message \in ReportMessages : \A specific_plan_condition \in ReportConditions :
    LET r == daily_progress_report(plans, message, FALSE, specific_plan_condition)
    IN ~r.directed
       => \A p \in 1..Len(plans) : \A t \in 1..Len(plans[p].tasks) :
            marked_by(r, p, t)
            => \/ \E w \in Range(long_words(lower(plans[p].tasks[t].task_name))) :
                    contains(lower(message), w)
               \/ indicator_count(lower(message)) >= 2

\* C7, amended: in heuristic mode of the daily report a task is given today's
\* date only if the message contains an indicator word and either the task's
\* name, in lower case, contains a word longer than 3 characters of the
\* lower-cased message, or the message contains two or more indicator words.
C7_MarkedOnlyIfMessageWordInTask ==
  \A message \in ReportMessages : \A specific_plan_condition \in ReportConditions :
    LET r == daily_progress_report(plans, message, FALSE, specific_plan_condition)
    IN ~r.directed
       => \A p \in 1..Len(plans) : \A t \in 1..Len(plans[p].tasks) :
            marked_by(r, p, t)
            => /\ indicator_count(lower(message)) >= 1
               /\ \/ \E w \in Range(long_words(lower(message))) :
                       contains(lower(plans[p].tasks[t].task_name), w)
                  \/ indicator_count(lower(message)) >= 2

\* the report "did walk" was handled in heuristic mode and a plan has the
\* task "Walking daily" marked while its task "Stretch" is pending
C7_Witness ==
  /\ last.op = "daily"
  /\ last.message = "did walk"
  /\ ~daily_directed(last.message, FALSE)
  /\ \E p \in 1..Len(plans) :
       /\ plans[p].active
       /\ \E t \in 1..Len(plans[p].tasks) :
            plans[p].tasks[t].task_name = "Walking daily" /\ done_today(plans[p].tasks[t])
       /\ \E t \in 1..Len(plans[p].tasks) :
            plans[p].tasks[t].task_name = "Stretch" /\ ~done_today(plans[p].tasks[t])

\* the whitespace-delimited words of a text, in lower case
words_of(s) == Range(Split(lower(s)))

\* C8: in heuristic mode of the daily report a message with two or more
\* indicator words that shares no word with any task name gives today's date
\* to at least one task, when an active plan has a task that lacks it.
C8_GenericConfirmationMarks ==
  \A message \in ReportMessages : \A specific_plan_condition \in ReportConditions :
    LET r == daily_progress_report(plans, message, FALSE, specific_plan_condition)
    IN (/\ ~r.directed
        /\ indicator_count(lower(message)) >= 2
        /\ \A p \in 1..Len(plans) : \A t \in 1..Len(plans[p].tasks) :
             plans[p].active =>
               words_of(message) \cap words_of(plans[p].tasks[t].task_name) = {}
        /\ \E p \in 1..Len(plans) : \E t \in 1..Len(plans[p].tasks) :
             plans[p].active /\ ~done_today(plans[p].tasks[t]))
       => \E p \in 1..Len(plans) : \E t \in 1..Len(plans[p].tasks) : marked_by(r, p, t)

\* how many of the given conditions hold
HowMany(conditions) == Cardinality({n \in 1..Len(conditions) : conditions[n]})

\* C9: one chat turn performs at most one of: deactivating a plan, marking
\* task completions, creating a plan.
C9_AtMostOneIntent ==
  \A message \in ChatMessages : \A ai \in AiOutcomes : \A analysis \in AnalysesFor(message) :
    LET r == chat(plans, message, analysis, ai)
    IN HowMany(<<r.plan_deactivated,
                 r.updated_tasks # <<>>,
                 Len(r.plans) > Len(plans)>>) <= 1

\* C9, amended: the three branches of the classification exclude each other.
\* A turn that deactivates a plan does not run plan generation on the user's
\* message, and a turn that runs it neither deactivates a plan nor marks a
\* task; marking after the response and a plan created from the specialist's
\* answer are not excluded by a deactivation or by each other.
C9_BranchesExclusive ==
  \A message \in ChatMessages : \A ai \in AiOutcomes : \A analysis \in AnalysesFor(message) :
    LET r == chat(plans, message, analysis, ai)
    IN /\ r.plan_deactivated => ~r.msg_plan_called /\ ~r.msg_plan_created
       /\ r.msg_plan_called
          => /\ ~r.plan_deactivated
             /\ r.deact_target = NoPlan
             /\ r.updated_tasks = <<>>
             /\ \A p \in 1..Len(plans) : r.plans[p] = plans[p]

\* the turn "I feel stressed" was answered, the newest plan is the one the
\* analysis of the message gave, active and unmarked, and an older plan is
\* still active
C9_Witness ==
  /\ last.op = "chat"
  /\ last.message = "I feel stressed"
  /\ Len(plans) = 2
  /\ plans[2].condition = "stress"
  /\ plans[2].active
  /\ \A t \in 1..Len(plans[2].tasks) : plans[2].tasks[t].progress = <<>>
  /\ plans[1].active

\* which kinds of keyword the lower-cased message contains as substrings
HasKeyword ==
  [m \in ChatMessages |->
     [deactivation |-> \E k \in Range(deactivation_keywords) : Contains(Lower(m), k),
      progress |-> \E k \in Range(progress_keywords) : Contains(Lower(m), k),
      health |-> \E k \in Range(HEALTH_CONDITION_KEYWORDS) : Contains(Lower(m), k)]]

\* C10: the chat turn classifies by strict priority.  The deactivation branch
\* runs exactly when the lower-cased message contains a deactivation keyword;
\* otherwise the progress branch exactly when it contains a progress keyword;
\* otherwise process_message_for_plan runs exactly when it contains a
\* health-condition keyword; otherwise no branch runs.  Only the deactivation
\* branch deactivates and only plan generation stores a plan from the message.
C10_StrictPriority ==
  \A message \in ChatMessages : \A ai \in AiOutcomes : \A analysis \in AnalysesFor(message) :
    LET r == chat(plans, message, analysis, ai)
        d == HasKeyword[message].deactivation
        g == HasKeyword[message].progress
        h == HasKeyword[message].health
    IN /\ (r.branch = "deactivate") = d
       /\ (r.branch = "progress") = (~d /\ g)
       /\ r.msg_plan_called = (~d /\ ~g /\ h)
       /\ (r.branch = "none") = (~d /\ ~g /\ ~h)
       /\ r.plan_deactivated => d
       /\ r.msg_plan_created => (~d /\ ~g /\ h)

\* the turn "STOP the stress plan", which holds a deactivation keyword and a
\* health-condition keyword, was answered: the stress plan is deactivated and
\* no second plan was made
C10_Witness ==
  /\ last.op = "chat"
  /\ last.message = "STOP the stress plan"
  /\ Len(plans) = 1
  /\ plans[1].condition = "stress"
  /\ ~plans[1].active

\* C11: whenever process_message_for_plan or process_ai_response_for_plan
\* reports plan_created, the plan data has a non-empty task list and a plan
\* with those tasks is stored under the returned plan id, which is not None.
C11_CreatedMeansStored ==
  /\ \A message \in ChatMessages : \A analysis \in PlanAnalyses :
       LET r == process_message_for_plan(plans, message, analysis)
       IN r.plan_created =>
            /\ Get(r.plan_data, "tasks", <<>>) # <<>>
            /\ r.plan_id # NoPlan
            /\ plan_exists(r.plans, r.plan_id)
            /\ [t \in 1..Len(r.plans[r.plan_id].tasks) |-> r.plans[r.plan_id].tasks[t].task_name]
                 = r.plan_data.tasks
  /\ \A ai_response \in AiResponses :
       LET r == process_ai_response_for_plan(plans, ai_response)
       IN r.plan_created =>
            /\ Get(r.plan_data, "tasks", <<>>) # <<>>
            /\ r.plan_id # NoPlan
            /\ plan_exists(r.plans, r.plan_id)
            /\ [t \in 1..Len(r.plans[r.plan_id].tasks) |-> r.plans[r.plan_id].tasks[t].task_name]
                 = r.plan_data.tasks

(***************************************************************************)
(* The extractor's answers, stated on the text of SpecText.                *)
(***************************************************************************)
\* no two tasks of the list carry the same name
distinct_names(tasks) ==
  \A a, b \in 1..Len(tasks) : a # b => tasks[a] # tasks[b]

\* C12: task names are pairwise distinct within every plan produced by
\* extract_daily_tasks_from_response, for any input text, and so within the
\* plan stored from it.
C12_ExtractedNamesDistinct ==
  /\ LET ex == extract_daily_tasks_from_response(last.message)
     IN ex.has_plan => distinct_names(ex.plan_data.tasks)
  /\ \A p \in 1..Len(plans) :
       distinct_names([t \in 1..Len(plans[p].tasks) |-> plans[p].tasks[t].task_name])

\* the positions of the "Day <N>:" markers of the text s
MarkerAt(s, i) == DayHead(s, i).ok /\ CharAt(s, DayHead(s, i).end) = ":"
Markers(s) == {i \in 1..Len(s) : MarkerAt(s, i)}

\* the n-th marker of s in text order
NthMarker(s, n) ==
  CHOOSE i \in Markers(s) : Cardinality({j \in Markers(s) : j < i}) = n - 1

\* the day block of the marker at i: the text after the marker up to the
\* next marker or the end of the text
BlockEnd(s, i) ==
  LET later == {j \in Markers(s) : j > i}
  IN IF later = {} THEN Len(s) ELSE (CHOOSE j \in later : \A j2 \in later : j <= j2) - 1
Block(s, i) == SubSeq(s, DayHead(s, i).end + 1, BlockEnd(s, i))

\* the task name the day block of the marker at i stands for: "Day <N>: "
\* and the block, whitespace-normalised and truncated
BlockTaskName(s, i) ==
  day_task_name([day_num |-> SubSeq(s, DayHead(s, i).num, DayHead(s, i).end - 1),
                 content |-> Block(s, i)])

\* C13: for a text with k >= 1 markers each followed by a description the
\* extractor reports has_plan with exactly k tasks, in text order (the n-th
\* task carries the day number of the n-th marker) and timeline_days =
\* min(k, 7); it reports has_plan = FALSE exactly when there is no marker.
C13_OneTaskPerMarker ==
  LET s == last.message
      k == Cardinality(Markers(s))
      ex == extract_daily_tasks_from_response(s)
  IN (\A i \in Markers(s) : Strip(Block(s, i)) # "")
     => /\ ex.has_plan = (k >= 1)
        /\ k >= 1 =>
             /\ Len(ex.plan_data.tasks) = k
             /\ ex.plan_data.timeline_days = Min(k, MaxTimelineDays)
             /\ \A n \in 1..k :
                  LET h == DayHead(s, NthMarker(s, n))
                      label == "Day " \o SubSeq(s, h.num, h.end - 1) \o ": "
                  IN SubSeq(ex.plan_data.tasks[n], 1, Len(label)) = label

\* C14: each extracted task carries the whole description of its day block,
\* from just after its marker up to the next marker or the end of the text.
C14_WholeDescription ==
  LET s == last.message
      ex == extract_daily_tasks_from_response(s)
  IN ex.has_plan =>
       \A n \in 1..Len(ex.plan_data.tasks) :
         ex.plan_data.tasks[n] \in {BlockTaskName(s, i) : i \in Markers(s)}

\* the task names of a stored plan, in order
stored_task_names(plan) == [t \in 1..Len(plan.tasks) |-> plan.tasks[t].task_name]

short_labelled(plan) ==
  LongWords(Lower(plan.condition)) = <<>> /\ LongWords(Lower(plan.plan_name)) = <<>>

\* C16: a plan whose condition label and name contain no word longer than 3
\* characters is never selected as the target plan for any message text:
\* not by the deactivation matching of a chat turn, not by its progress
\* marking, and not by directed mode of the daily report.
C16_ShortLabelsNeverSelected ==
  /\ \A message \in ChatMessages : \A ai \in AiOutcomes : \A analysis \in ShortAnalyses :
       LET r == chat(plans, message, analysis, ai)
       IN /\ r.deact_target # NoPlan => ~short_labelled(plans[r.deact_target])
          /\ r.mark_target # NoPlan => ~short_labelled(r.plans[r.mark_target])
  /\ \A message \in ReportMessages : \A mark_all_complete \in BOOLEAN :
       \A specific_plan_condition \in ReportConditions :
         LET r == daily_progress_report(plans, message, mark_all_complete, specific_plan_condition)
         IN (r.directed /\ r.target # NoPlan) => ~short_labelled(plans[r.target])

\* the calendar days of the trailing window that ends today, oldest first
window_dates(today) == [k \in 1..WindowDays |-> strftime(today - WindowDays + k)]

\* no counter of the store has words recorded for the date
nothing_recorded(stats, date_str) ==
  \A j \in 1..Len(stats) : get_or_zero(stats[j].daily_word_counts, date_str) = 0

\* C17: get_time_spent_last_7_days always returns exactly 7 day entries, one
\* per calendar day of the trailing window ending today, oldest to newest,
\* with total_words = 0 for the days without recorded words, for every state
\* of the counters store, the store without any counter included.
C17_SevenDayEntries ==
  LET time_data == get_time_spent_last_7_days(specialist_stats, now)
  IN /\ Len(time_data) = WindowDays
     /\ \A k \in 1..Len(time_data) :
          /\ time_data[k].date = window_dates(now)[k]
          /\ nothing_recorded(specialist_stats, time_data[k].date) => time_data[k].total_words = 0

\* the specialist has no words recorded for the date
specialist_silent(stats, specialist, date_str) ==
  \A j \in 1..Len(stats) :
    stats[j].specialist_name = specialist => get_or_zero(stats[j].daily_word_counts, date_str) = 0

\* C18: in the word-generation-trends view every specialist series has
\* exactly one entry for each date of the trailing window, sorted by date,
\* with words = 0 on the days the specialist produced nothing, so that all
\* series of a response share the same date axis.
C18_SeriesShareDateAxis ==
  LET trends == get_word_generation_trends(specialist_stats, now).specialist_trends
  IN \A specialist \in DOMAIN trends :
       /\ Len(trends[specialist]) = WindowDays
       /\ \A k \in 1..Len(trends[specialist]) :
            /\ trends[specialist][k].date = window_dates(now)[k]
            /\ specialist_silent(specialist_stats, specialist, trends[specialist][k].date)
                 => trends[specialist][k].words = 0

\* the trends were asked for on the first day of the new year: both
\* specialists have a series, one with words on that day and none the day
\* before, the other the reverse
C18_Witness ==
  /\ last.op = "trends"
  /\ strftime(now) = "2025-01-01"
  /\ last.response = get_word_generation_trends(specialist_stats, now)
  /\ DOMAIN last.response.specialist_trends = Specialists
  /\ last.response.specialist_trends["Ruby"][WindowDays].words > 0
  /\ last.response.specialist_trends["Ruby"][WindowDays - 1].words = 0
  /\ last.response.specialist_trends["Dr_Warren"][WindowDays].words = 0
  /\ last.response.specialist_trends["Dr_Warren"][WindowDays - 1].words > 0

\* the tasks of the sequence that lack today's date, as calls to come
pending_calls(plan_id, tasks) ==
  LET pending == SelectSeq(tasks, LAMBDA task : Today \notin Range(task.progress))
  IN [k \in 1..Len(pending) |-> [plan_id |-> plan_id, task_name |-> pending[k].task_name]]

\* the pending tasks the loop of the request selects, from the store as the
\* loop found it
selected_pending(req) ==
  IF req.loop = "all" THEN pending_calls(req.target, req.start[req.target].tasks)
  ELSE IF req.loop = "heuristic"
  THEN LET pairs == SelectSeq(plan_task_pairs(get_active_plans(req.start)),
                              LAMBDA p : /\ Today \notin Range(p.task.progress)
                                         /\ heuristic_selects(p.task.task_name, Lower(req.message)))
       IN [k \in 1..Len(pairs) |-> [plan_id |-> pairs[k].plan_id,
                                    task_name |-> pairs[k].task.task_name]]
  ELSE <<>>

\* the names of the tasks whose call answered True, in the order of the calls
names_answered_true(calls) ==
  LET good == SelectSeq(calls, LAMBDA c : c.ret)
  IN [k \in 1..Len(good) |-> good[k].task_name]

\* C19: within one reconciliation loop each selected pending task causes
\* exactly one update_task_progress call; a call that answers False neither
\* raises nor stops the loop: the tasks marked before it stay marked, the
\* tasks after it are still attempted, and the list returned holds exactly
\* the tasks whose call answered True.
C19_OneCallPerSelectedTask ==
  last.op \in {"chat", "daily"} =>
    /\ Len(last.calls) = Len(selected_pending(last))
    /\ \A k \in 1..Len(last.calls) :
         /\ last.calls[k].plan_id = selected_pending(last)[k].plan_id
         /\ last.calls[k].task_name = selected_pending(last)[k].task_name
         /\ last.calls[k].ret = (k \notin last.failing)
         /\ last.calls[k].ret =>
              \E t \in 1..Len(plans[last.calls[k].plan_id].tasks) :
                /\ plans[last.calls[k].plan_id].tasks[t].task_name = last.calls[k].task_name
                /\ Today \in Range(plans[last.calls[k].plan_id].tasks[t].progress)
    /\ last.updated_tasks = names_answered_true(last.calls)
    /\ \A p \in 1..Len(last.start) : \A t \in 1..Len(last.start[p].tasks) :
         /\ plans[p].tasks[t].task_name = last.start[p].tasks[t].task_name
         /\ \A d \in Range(last.start[p].tasks[t].progress) : d \in Range(plans[p].tasks[t].progress)
         /\ (\A k \in 1..Len(last.calls) :
               last.calls[k].ret => ~(/\ last.calls[k].plan_id = p
                                      /\ last.calls[k].task_name = plans[p].tasks[t].task_name))
              => plans[p].tasks[t].progress = last.start[p].tasks[t].progress

\* heuristic mode made three calls on the two plans and the store failed the
\* second: the first and the third task are marked and returned, the second
\* is neither
C19_Witness ==
  /\ last.op = "daily"
  /\ last.loop = "heuristic"
  /\ last.failing = {2}
  /\ Len(last.calls) = 3
  /\ last.calls[1].ret /\ ~last.calls[2].ret /\ last.calls[3].ret
  /\ last.updated_tasks = <<last.calls[1].task_name, last.calls[3].task_name>>
  /\ \E p \in 1..Len(plans) : \E t \in 1..Len(plans[p].tasks) :
       /\ plans[p].tasks[t].task_name = last.calls[2].task_name
       /\ Today \notin Range(plans[p].tasks[t].progress)

\* the texts of the exceptions the steps of a turn raise here
error_text_shown(response) ==
  \/ Contains(response.message \o response.detail, ImageErrorText)
  \/ Contains(response.message \o response.detail, GenerationErrorText)

\* C20: any failure inside a chat turn (image processing and text generation
\* among them) ends the turn with the single generic fallback message as the
\* response, and the response never contains the text of the underlying
\* exception.
C20_FailureGivesFallback ==
  (last.op = "chat" /\ last.failed # "none") =>
    /\ last.response.status = 200
    /\ last.response.message = FallbackMessage
    /\ ~error_text_shown(last.response)

(***************************************************************************)
(* The unavailable store, stated on the requests of SpecDown.              *)
(***************************************************************************)
\* C21: when the store is unavailable (no connection string configured, or
\* the store call fails), get_active_plans and get_last_messages answer the
\* empty list without raising, and a chat turn ends with a rendered response
\* (status 200), not with an error.
C21_UnavailableStoreDegrades ==
  ("unavailable" \in DOMAIN last /\ last.unavailable) =>
    IF last.op = "chat"
    THEN last.response.status = 200 /\ last.response.message # ""
    ELSE last.result.raised = "" /\ last.result.value = <<>>

\* the dates recorded for the task of that name in the plan
progress_of(ps, plan_id, task_name) ==
  UNION {Range(ps[plan_id].tasks[t].progress) :
           t \in {n \in 1..Len(ps[plan_id].tasks) : ps[plan_id].tasks[n].task_name = task_name}}

\* C22: when two concurrent update_task_progress calls for two different
\* tasks of the same plan have both returned True, each task contains the
\* date of its call and every date recorded before the calls is still there,
\* in every interleaving of their store operations.
C22_DifferentTasksBothRecorded ==
  ( /\ \A w \in Workers : pc[w] = "done" /\ rets[w]
    /\ args[1].plan_id = args[2].plan_id
    /\ args[1].task_name # args[2].task_name
    /\ \A w \in Workers : args[w].task_name \in task_names_of(plans[args[w].plan_id]) )
  => /\ \A w \in Workers :
          args[w].date \in progress_of(plans, args[w].plan_id, args[w].task_name)
     /\ \A t \in task_names_of(last.before[args[1].plan_id]) :
          progress_of(last.before, args[1].plan_id, t) \subseteq progress_of(plans, args[1].plan_id, t)

\* C23: no completion date is added to a task of a plan after the plan has
\* been deactivated: a step of any request leaves the tasks of every plan
\* that is inactive before it as they are.
C23_NoDateAfterDeactivation ==
  [][\A id \in 1..Len(plans) :
       ~plans[id].active => plans'[id].tasks = plans[id].tasks]_vars

\* q is the start of r
IsPrefix(q, r) == Len(q) <= Len(r) /\ SubSeq(r, 1, Len(q)) = q

\* the plan is stored as before but for its active flag and for dates that
\* were added to its tasks
record_kept(before, after) ==
  /\ after.plan_name = before.plan_name
  /\ after.condition = before.condition
  /\ after.timeline_days = before.timeline_days
  /\ Len(after.tasks) = Len(before.tasks)
  /\ \A t \in 1..Len(before.tasks) :
       /\ after.tasks[t].task_name = before.tasks[t].task_name
       /\ IsPrefix(before.tasks[t].progress, after.tasks[t].progress)

\* C24: a deactivation (DELETE /plans/{id}) changes nothing but the active
\* flag of one plan, which it sets to False; and in every step of every
\* request each stored plan stays stored with its name, condition,
\* timeline_days, tasks and recorded dates, and a deactivated plan is never
\* active again.
C24_DeactivationKeepsRecord ==
  [][/\ Len(plans') >= Len(plans)
     /\ \A id \in 1..Len(plans) :
          /\ record_kept(plans[id], plans'[id])
          /\ ~plans[id].active => ~plans'[id].active
     /\ last'.op = "deactivate" =>
          /\ Len(plans') = Len(plans)
          /\ Cardinality({id \in 1..Len(plans) : plans'[id] # plans[id]}) <= 1
          /\ \A id \in 1..Len(plans) :
               plans'[id] \in {plans[id], [plans[id] EXCEPT !.active = FALSE]}]_vars

\* a plan with a recorded date has been deactivated by the last request
\* while another plan is active
C24_Witness ==
  /\ last.op = "deactivate"
  /\ \E id \in 1..Len(plans) :
       /\ ~plans[id].active
       /\ \E t \in 1..Len(plans[id].tasks) : plans[id].tasks[t].progress # <<>>
  /\ \E id \in 1..Len(plans) : plans[id].active

\* C25: no chat turn creates a plan while an active plan exists for a similar
\* condition: a plan that is active after the turn and was stored before it
\* has no word longer than 3 characters in its condition that occurs in the
\* condition of a plan the turn created.
C25_NoDuplicateForSimilarCondition ==
  [][last'.op = "chat" =>
       \A new \in (Len(plans) + 1)..Len(plans') : \A id \in 1..Len(plans) :
          plans'[id].active => ~similar_condition(plans[id], lower(plans'[new].condition))]_vars

(***************************************************************************)
(* The concurrent turns of SpecRace.                                       *)
(***************************************************************************)
\* C26: when two concurrent chat turns with the same health-condition
\* message have both come back from process_message_for_plan, at most one
\* plan has been created, in every interleaving of their store operations.
C26_AtMostOnePlanCreated ==
  ( /\ last.op = "race"
    /\ \A w \in Workers : pc[w] = "done"
    /\ args[1].message = args[2].message )
  => Len(plans) <= Len(last.before) + 1

\* routes/chat.py line 96: the message contains a progress keyword
is_progress_request(message) == any_in(progress_keywords, lower(message))

\* C27: a chat turn whose message contains a progress keyword (mark,
\* progress, completed, finished, done, update, track) stores no new plan,
\* whatever the specialist answers
C27_ProgressRequestCreatesNoPlan ==
  [][(last'.op = "chat" /\ is_progress_request(last'.message))
       => Len(plans') = Len(plans)]_vars

\* sum(daily_word_counts.values())
RECURSIVE sum_of_days(_, _)
sum_of_days(d, days) ==
  IF days = {} THEN 0
  ELSE LET day == CHOOSE x \in days : TRUE
       IN d[day] + sum_of_days(d, days \ {day})

daily_sum(d) == sum_of_days(d, DOMAIN d)

\* one record per specialist, and every record's totals agree with its days
stats_consistent(stats) ==
  /\ \A j, k \in 1..Len(stats) :
       stats[j].specialist_name = stats[k].specialist_name => j = k
  /\ \A k \in 1..Len(stats) :
       /\ stats[k].total_words_generated = daily_sum(stats[k].daily_word_counts)
       /\ stats[k].total_messages_sent >= 1

\* the record k of before is still there, and none of its values is smaller
record_grown(before, after, k) ==
  /\ k <= Len(after)
  /\ after[k].specialist_name = before[k].specialist_name
  /\ after[k].total_words_generated >= before[k].total_words_generated
  /\ after[k].total_messages_sent >= before[k].total_messages_sent
  /\ DOMAIN before[k].daily_word_counts \subseteq DOMAIN after[k].daily_word_counts
  /\ \A d \in DOMAIN before[k].daily_word_counts :
       after[k].daily_word_counts[d] >= before[k].daily_word_counts[d]

\* the messages counted for a specialist, 0 without a record
messages_sent_of(stats, specialist_name) ==
  LET k == find_one_stats(stats, specialist_name)
  IN IF k = 0 THEN 0 ELSE stats[k].total_messages_sent

\* one update was applied: one specialist counts one message more, the
\* others count what they counted
one_update_counted(before, after) ==
  \E name \in Specialists :
    /\ messages_sent_of(after, name) = messages_sent_of(before, name) + 1
    /\ \A other \in Specialists \ {name} :
         messages_sent_of(after, other) = messages_sent_of(before, other)

\* a step that stores an answer of a specialist
answer_stored == last'.op = "chat" /\ now' = now

\* what a step may do to the counters
stats_step(before, after) ==
  /\ \A k \in 1..Len(before) : record_grown(before, after, k)
  /\ Len(after) <= Len(before) + 1
  /\ Len(after) = Len(before) + 1 => after[Len(after)].total_messages_sent = 1

\* C28: after any sequence of update_specialist_word_count calls each
\* specialist has exactly one record, whose total_words_generated is the sum
\* of its daily_word_counts and whose total_messages_sent is the number of
\* updates applied to it; no value ever decreases, a record is created only
\* by the first update of its specialist and is never deleted
C28_CountersConsistent ==
  /\ []stats_consistent(specialist_stats)
  /\ [][/\ stats_step(specialist_stats, specialist_stats')
        /\ answer_stored => one_update_counted(specialist_stats, specialist_stats')
        /\ ~answer_stored => specialist_stats' = specialist_stats]_vars

\* two specialists have a record, one of them with answers on two days
C28_Witness ==
  /\ Len(specialist_stats) = 2
  /\ \E k \in 1..2 :
       /\ specialist_stats[k].total_messages_sent = 2
       /\ Cardinality(DOMAIN specialist_stats[k].daily_word_counts) = 2
       /\ specialist_stats[k].total_words_generated > 0

\* the records of a specialist
records_of(stats, specialist_name) ==
  {k \in 1..Len(stats) : stats[k].specialist_name = specialist_name}

\* the words counted for a specialist today, 0 without a record
words_today_of(stats, specialist_name, today) ==
  LET k == find_one_stats(stats, specialist_name)
  IN IF k = 0 THEN 0 ELSE get_or_zero(stats[k].daily_word_counts, today)

words_generated_of(stats, specialist_name) ==
  LET k == find_one_stats(stats, specialist_name)
  IN IF k = 0 THEN 0 ELSE stats[k].total_words_generated

\* the one record of the specialist counts both answers
both_counted(before, after, specialist_name, words, today) ==
  /\ Cardinality(records_of(after, specialist_name)) = 1
  /\ messages_sent_of(after, specialist_name) = messages_sent_of(before, specialist_name) + 2
  /\ words_generated_of(after, specialist_name)
       = words_generated_of(before, specialist_name) + words
  /\ words_today_of(after, specialist_name, today)
       = words_today_of(before, specialist_name, today) + words

\* C29: after two concurrent update_specialist_word_count calls for the same
\* specialist, in any interleaving, the specialist has exactly one record,
\* and its total_words_generated, total_messages_sent and today's count
\* reflect both calls
C29_BothUpdatesCounted ==
  ( /\ last.op = "words"
    /\ \A w \in Workers : pc[w] = "done"
    /\ args[1].specialist_name = args[2].specialist_name )
  => both_counted(last.before, specialist_stats, args[1].specialist_name,
                  Len(Split(args[1].message)) + Len(Split(args[2].message)),
                  strftime(now))

\* routes/chat.py lines 90-93: the message contains a deactivation keyword
is_deactivation_request(message) == any_in(deactivation_keywords, lower(message))

\* the active plans with a word longer than 3 characters of their condition
\* or name in the lower-cased message
mentioned_ids(ps, message) ==
  {id \in 1..Len(ps) :
     /\ ps[id].active
     /\ \E word \in Range(long_words(lower(ps[id].condition)))
                      \cup Range(long_words(lower(ps[id].plan_name))) :
          contains(lower(message), word)}

\* the plan created last among ids
newest_of(ids) == CHOOSE x \in ids : \A y \in ids : y <= x

\* C30: a chat turn with a deactivation request deactivates the newest
\* active plan that has a word longer than 3 characters of its condition or
\* name in the lower-cased message, and no other plan; without such a plan
\* every active flag stays as it was
C30_NewestMentionedPlanDeactivated ==
  [][(last'.op = "chat" /\ is_deactivation_request(last'.message))
       => \A id \in 1..Len(plans) :
            plans'[id].active
              = ( /\ plans[id].active
                  /\ \/ mentioned_ids(plans, last'.message) = {}
                     \/ id # newest_of(mentioned_ids(plans, last'.message)) )]_vars

\* the newer of two plans that the request mentions was deactivated, the
\* older one is still active
C30_Witness ==
  /\ last.op = "chat"
  /\ is_deactivation_request(last.message)
  /\ Len(plans) >= 2
  /\ ~plans[2].active
  /\ mentioned_ids(plans, last.message) = {1}
  /\ 2 \in mentioned_ids([plans EXCEPT ![2].active = TRUE], last.message)

====
